---- MODULE Spec2Model ----
(***************************************************************************)
(* The filesystem order protocol of galaxy-protocol: order files in the    *)
(* orders directory (pending `<id>.json`, claimed `<id>.json.processing`), *)
(* the archive directory, response files and the outbox, as they are       *)
(* created and consumed by                                                 *)
(*   - TelegramChannel.create_order / _on_text / cmd_order,                *)
(*   - the gateway's executor_loop and HermesExecutor.execute,             *)
(*   - the Hermes daemon (hermes.py main, process_order),                  *)
(*   - the MCP tools galaxy_execute and galaxy_acknowledge,                *)
(*   - the acknowledgment poller of the Telegram channel.                  *)
(* Every filesystem write, rename and unlink of the source is a step of    *)
(* its own, so that the interleavings of the separate processes are the    *)
(* model's behaviours.                                                     *)
(***************************************************************************)
EXTENDS Integers, FiniteSets, Sequences, TLC

\* ---------------------------------------------------------------- bounds
MaxClock == 2
\* wall-clock seconds the model distinguishes: 1..MaxClock
MaxOrders == 2
\* orders ever written to the orders directory
MaxFaults == 1
\* I/O failures (a raised OSError / network error) injected in one behaviour
MaxInbound == 2
\* length of the bus's inbound queue
MaxMessages == 2
\* messages published to the bus in one behaviour
MaxSessions == 2
\* agent sessions created in one behaviour
Timeout == 150
\* HermesExecutor's configured timeout, in seconds

\* ------------------------------------------------------ program constants
HEARTBEAT_INTERVAL == 60
\* HermesExecutor's poll_interval (its default), in seconds
PollInterval == 1
\* concurrent MCP tool calls (galaxy_execute / galaxy_acknowledge)
NumCallers == 1
\* authorized Telegram users
NumUsers == 2
\* WebSocket connections of the web user in one behaviour
NumSockets == 3
\* parts of a message text
MaxText == 2
\* Telegram senders who are not on the allow-list
NumStrangers == 1
\* URLs shared with the feed processor
NumUrls == 2
\* process_feed calls in one behaviour
MaxFeeds == 3
\* updates of senders who are not on the allow-list
MaxUpdates == 2
\* failures of process_order counted in stats["failure_count"]
MaxFailures == 2

\* ------------------------------------------------------------ identifiers
\* File stems.  TelegramChannel names an order file after the clock second
\* (strftime("%Y%m%d-%H%M%S")); the gateway names it after the session key.
Stamps == 1..MaxClock
SessionKey == 0
Ids == {SessionKey} \cup Stamps
Callers == 1..NumCallers
\* Telegram users on the allow-list (self.authorized); in a private chat
\* the chat id is the user id.  NoChat stands for "no chat_id field".
Users == 1..NumUsers
\* The WebSocket connections one web user opens, in the order of their
\* arrival at the server.
Socks == 1..NumSockets
NoSock == 0
NoChat == 0
\* The chat of the one channel session whose texts reach the bus.
SessionChat == 1

\* An order record.  ser identifies the content written by one creation
\* (payload text and timestamp); ser = 0 stands for "no such file".
NoOrder ==
  [ser |-> 0, payload |-> "none", acknowledged |-> FALSE,
   acknowledged_at |-> FALSE, acknowledged_by |-> "none", chat_id |-> NoChat]

NewOrder(n, p, c) ==
  [ser |-> n, payload |-> p, acknowledged |-> FALSE,
   acknowledged_at |-> FALSE, acknowledged_by |-> "none", chat_id |-> c]

Exists(f) == f.ser # 0

\* An outbox notification file; severity "none" stands for "no such file".
NoNotif == [severity |-> "none", sent |-> FALSE, ser |-> 0, chat_id |-> NoChat]
NoFile == <<"none", 0>>
\* Agent session ids; NoSid stands for None.
SessionIds == 1..MaxSessions
NoSid == 0
\* The session file: absent, empty (opened for writing, nothing written
\* yet) or the complete JSON object with its session_id.
NoSessionFile == [state |-> "absent", session_id |-> NoSid]
EmptyFile == [state |-> "empty", session_id |-> NoSid]
SessionRecord(sid) == [state |-> "complete", session_id |-> sid]
\* The result of an agent run: exit code, the phrases found in its
\* lower-cased stderr, the sessionID of its stdout.
NoResult == [returncode |-> 0, stderr |-> {}, sessionID |-> NoSid]

\* references/index.json.  A url is a site with its host written in upper
\* or in lower case and its path with or without a trailing slash.  An
\* entry of "references" either has the eight fields _validate_index
\* requires (ok) or lacks one; its slug also names its reference file;
\* shared_at is carried as updated_at; analysis "none" = no such field.
\* exists = FALSE: no file.
FeedUrls == [site : 1..NumUrls, upper : BOOLEAN, slash : BOOLEAN]
NoUrl == [site |-> 0, upper |-> FALSE, slash |-> FALSE]
Ref(u, slug, n, at) ==
  [url |-> u, slug |-> slug, note |-> n, created_at |-> at, updated_at |-> at,
   ok |-> TRUE, analysis |-> "none"]
NoIndex == [exists |-> FALSE, references |-> <<>>]
\* What process_feed returns; slug 0 stands for "no call has returned".
NoReturn == [slug |-> 0, updated_existing |-> FALSE, warning |-> FALSE]

\* An OutboundMessage; `for` is the ser of the order it answers.
NoMessage == [chat |-> SessionKey, for |-> 0, content |-> 0]
Notif(sev, n, c) == [severity |-> sev, sent |-> FALSE, ser |-> n, chat_id |-> c]

\* Outbox file names: hermes-<id>.json, processing-<id>.json and the
\* galaxy_execute notification <clock second>.json.
OutboxNames == ({"hermes", "processing"} \X Ids) \cup ({"mcp"} \X Stamps)

VARIABLES
  now,          \* the wall clock, in seconds
  nextSer,      \* orders written so far + 1
  faults,       \* I/O failures injected so far
  pending,      \* orders dir: <id>.json
  claimed,      \* orders dir: <id>.json.processing
  archive,      \* archive dir: <id>.json
  responses,    \* galaxy-order-response-<id>.md: ser of the order answered, 0 = absent
  outbox,       \* outbox dir
  heartbeatFresh, \* galaxy-session-heartbeat.json says running and is younger than 120 s
  binaryPresent,  \* resolve_opencode_binary finds an agent binary
  pending_orders, \* TelegramChannel.pending_orders: tracked order files
  inbound,      \* MessageBus.inbound: the queued messages (content and number)
  outbound,     \* the OutboundMessages published, in order
  hpc, hscan, hfile, horder, hid, hresp,   \* the Hermes daemon
  failure_count, \* stats["failure_count"] of the Hermes daemon
  running,      \* hermes.py's global running: no SIGINT/SIGTERM received yet
  heartbeat_status, \* "status" of galaxy-session-heartbeat.json
  cpc, cfile, corder, cres,                \* the MCP tool calls
  epc, eser, eres, etext,                  \* executor_loop / HermesExecutor.execute
  elapsed, last_heartbeat,                 \* execute: time.time() - start_time, last_heartbeat - start_time
  hbfiles,      \* outbox dir: the heartbeat-<session key>-<elapsed>.json files
  beats,        \* history: elapsed times of the heartbeats of the current wait
  opc, oscan, ofile, odata, ousers,        \* poll_outbox_messages
  delivered,    \* history: file, user and the file's chat_id of the sends that succeeded
  undelivered,  \* history: <<file name, user>> of the sends whose two attempts both raised
  ppc, pscan, pdone, pfile, pser,          \* poll_order_acknowledgments
  nextMsg,      \* messages published to the inbound queue so far + 1
  consumed,     \* history: the messages consume_inbound has returned, in order
  dpc, dpos, dmsg, \* outbound_dispatcher: position, messages taken from the outbound queue, the one in hand
  received,     \* history: the OutboundMessages a chat has been sent, in order
  dropped,      \* history: order sers of the OutboundMessages whose send failed
  session_file, \* .galaxy/hermes-session.json
  nextSid,      \* session ids the agent has created so far + 1
  apc, session_id, result, \* call_agent: position, the session id loaded, the last run's result
  passed,       \* history: the --session arguments of the runs of the current call_agent
  jpc, jsid,    \* the enrichment job: position, the session id it saves
  jread,        \* history: what the enrichment job's last read of the session file obtained
  connections,  \* WebChannel.connections[chat_id] of the one web user, NoSock = no entry
  wpc, old_ws,  \* handle_websocket, per socket: position and its old_ws
  wclosed,      \* per socket: ws.closed
  wgot,         \* history, per socket: kinds of the frames the server sent on it
  wlost,        \* history: WebChannel.send found no active WebSocket
  corrupted,    \* galaxy-orders-corrupted dir: <id>.json
  index,        \* references/index.json
  fpc, url, note, index_data, \* process_feed: position, its url and note, the index as it loaded it
  monitors,     \* reference files whose _monitor_enrichment_job task is running
  returned,     \* what the last process_feed call returned
  unauthorized, \* history: the updates of senders not on the allow-list, in order
  replies,      \* history: the replies sent to senders not on the allow-list
  \* history variables (not program state)
  overwritten,  \* sers of pending orders replaced by a later order creation
  respWritten,  \* sers of the orders for which a response file has been written
  announced     \* per order ser: response announcements produced to the user

fsVars == <<pending, claimed, archive, responses, outbox>>
envVars == <<now, faults, heartbeatFresh, binaryPresent>>
chanVars == <<pending_orders, inbound, outbound>>
hVars == <<hpc, hscan, hfile, horder, hid, hresp>>
cVars == <<cpc, cfile, corder, cres>>
eVars == <<epc, eser, eres, etext, elapsed, last_heartbeat, hbfiles, beats>>
oVars == <<opc, oscan, ofile, odata, ousers, delivered, undelivered>>
pVars == <<ppc, pscan, pdone, pfile, pser>>
histVars == <<overwritten, respWritten, announced>>
wVars == <<connections, wpc, old_ws, wclosed, wgot, wlost>>
dVars == <<dpc, dpos, dmsg, received, dropped>>
bVars == <<nextMsg, consumed, dVars>>
sVars == <<session_file, nextSid, apc, session_id, result, passed, jpc, jsid, jread>>
xVars ==
  <<unauthorized, replies, corrupted, index, fpc, url, note, index_data,
    monitors, returned, failure_count, running, heartbeat_status>>
vars ==
  <<nextSer, fsVars, envVars, chanVars, hVars, cVars, eVars, pVars, oVars, wVars,
    bVars, sVars, xVars, histVars>>

Sers == 1..MaxOrders

Init ==
  /\ now = 1
  /\ nextSer = 1
  /\ faults = 0
  /\ pending = [o \in Ids |-> NoOrder]
  /\ claimed = [o \in Ids |-> NoOrder]
  /\ archive = [o \in Ids |-> NoOrder]
  /\ responses = [o \in Ids |-> 0]
  /\ outbox = [f \in OutboxNames |-> NoNotif]
  /\ heartbeatFresh = FALSE
  /\ binaryPresent \in BOOLEAN
  /\ pending_orders = {}
  /\ inbound = <<>>
  /\ outbound = <<>>
  /\ hpc = "sleep" /\ hscan = {} /\ hfile = SessionKey /\ horder = NoOrder
  /\ hid = SessionKey /\ hresp = "none"
  /\ failure_count = 0 /\ running = TRUE /\ heartbeat_status = "running"
  /\ cpc = [c \in Callers |-> "idle"]
  /\ cfile = [c \in Callers |-> SessionKey]
  /\ corder = [c \in Callers |-> NoOrder]
  /\ cres = [c \in Callers |-> "none"]
  /\ epc = "consume" /\ eser = 0 /\ eres = "none" /\ etext = 0
  /\ elapsed = 0 /\ last_heartbeat = 0 /\ hbfiles = {} /\ beats = <<>>
  /\ opc = "sleep" /\ oscan = <<>> /\ ofile = NoFile /\ odata = NoNotif
  /\ ousers = {} /\ delivered = {} /\ undelivered = {}
  /\ nextMsg = 1 /\ consumed = <<>>
  /\ dpc = "consume" /\ dpos = 0 /\ dmsg = NoMessage
  /\ received = <<>> /\ dropped = {}
  /\ session_file = NoSessionFile /\ nextSid = 1
  /\ apc = "idle" /\ session_id = NoSid /\ result = NoResult /\ passed = <<>>
  /\ jpc = "idle" /\ jsid = NoSid /\ jread = NoSessionFile
  /\ corrupted = [o \in Ids |-> NoOrder]
  /\ index = NoIndex
  /\ fpc = "idle" /\ url = NoUrl /\ note = 0 /\ index_data = NoIndex
  /\ monitors = {} /\ returned = NoReturn
  /\ unauthorized = <<>> /\ replies = {}
  /\ connections = NoSock
  /\ wpc = [k \in Socks |-> "new"]
  /\ old_ws = [k \in Socks |-> NoSock]
  /\ wclosed = [k \in Socks |-> FALSE]
  /\ wgot = [k \in Socks |-> {}]
  /\ wlost = FALSE
  /\ ppc = "sleep" /\ pscan = {} /\ pdone = {} /\ pfile = SessionKey /\ pser = 0
  /\ overwritten = {}
  /\ respWritten = {}
  /\ announced = [n \in Sers |-> 0]

\* ------------------------------------------------------------ environment
\* The wall clock advances to the next second.
Tick ==
  /\ now < MaxClock
  /\ now' = now + 1
  /\ UNCHANGED <<nextSer, faults, heartbeatFresh, binaryPresent, fsVars,
                 chanVars, hVars, cVars, eVars, pVars, wVars, bVars, sVars, xVars, oVars, histVars>>

\* The agent binary is installed or removed (GALAXY_OPENCODE_BIN, PATH).
BinaryChanges ==
  /\ binaryPresent' = ~binaryPresent
  /\ UNCHANGED <<now, nextSer, faults, heartbeatFresh, fsVars, chanVars,
                 hVars, cVars, eVars, pVars, wVars, bVars, sVars, xVars, oVars, histVars>>

\* The heartbeat record grows older than HEARTBEAT_TIMEOUT.
HeartbeatAges ==
  /\ heartbeatFresh
  /\ heartbeatFresh' = FALSE
  /\ UNCHANGED <<now, nextSer, faults, binaryPresent, fsVars, chanVars,
                 hVars, cVars, eVars, pVars, wVars, bVars, sVars, xVars, oVars, histVars>>

\* ------------------------------------------------------- order creation
\* Writing an order file: open(path, "w") / write_text replace whatever
\* file has that name.
WriteOrderFile(o, p, c) ==
  /\ nextSer <= MaxOrders
  /\ pending' = [pending EXCEPT ![o] = NewOrder(nextSer, p, c)]
  /\ nextSer' = nextSer + 1
  /\ overwritten' = IF Exists(pending[o]) THEN overwritten \cup {pending[o].ser}
                    ELSE overwritten

\* TelegramChannel.create_order: the file is named after the clock second;
\* the order carries no chat_id.
create_order == WriteOrderFile(now, "text", NoChat)

\* BaseChannel._handle_message: an InboundMessage is built and put on the
\* bus's inbound queue.
_handle_message(content) ==
  /\ inbound' = Append(inbound, [content |-> content, msg |-> nextMsg])
  /\ nextMsg' = nextMsg + 1

\* TelegramChannel._on_text for an authorized sender with non-empty text:
\* create_order, track the file, publish the text to the bus.
OnText ==
  /\ Len(inbound) < MaxInbound
  /\ nextMsg <= MaxMessages
  /\ create_order
  /\ pending_orders' = pending_orders \cup {now}
  /\ _handle_message("text")
  /\ UNCHANGED <<envVars, claimed, archive, responses, outbox, outbound,
                 hVars, cVars, eVars, pVars, wVars, sVars, xVars, consumed, dVars, oVars,
                 respWritten, announced>>

\* _on_text when the default machine is not local: create_order returns
\* None, nothing is written or tracked, the text is published to the bus.
OnTextRemote ==
  /\ Len(inbound) < MaxInbound
  /\ nextMsg <= MaxMessages
  /\ _handle_message("text")
  /\ UNCHANGED <<nextSer, fsVars, envVars, pending_orders, outbound, hVars,
                 cVars, eVars, pVars, wVars, sVars, xVars, consumed, dVars, oVars, histVars>>

\* TelegramChannel.cmd_order for the local default machine: the order file
\* is written and tracked, nothing is published to the bus.
cmd_order ==
  /\ WriteOrderFile(now, "text", NoChat)
  /\ pending_orders' = pending_orders \cup {now}
  /\ UNCHANGED <<envVars, claimed, archive, responses, outbox, inbound, outbound,
                 hVars, cVars, eVars, pVars, wVars, bVars, sVars, xVars, oVars, respWritten, announced>>

\* ------------------------------------------------- bot.py: text orders
\* A message text as the sequence of its parts: a word ("w"), white space
\* (" "), a project tag "#name" ("#"), a priority or schedule mark ("!").
Texts == UNION {[1..n -> {"w", " ", "#", "!"}] : n \in 1..MaxText}

\* str.strip()
RECURSIVE strip(_)
strip(t) ==
  IF t = <<>> THEN t
  ELSE IF Head(t) = " " THEN strip(Tail(t))
  ELSE IF t[Len(t)] = " " THEN strip(SubSeq(t, 1, Len(t) - 1))
  ELSE t

\* router.route_text / common.resolve_project: a text with a project tag
\* is returned without its tags, stripped; any other text as it is.
resolve_project(t) ==
  IF \E i \in 1..Len(t) : t[i] = "#"
    THEN strip(SelectSeq(t, LAMBDA x : x # "#"))
    ELSE t

\* common.parse_priority_and_schedule: the marks are removed and the
\* text stripped.
parse_priority_and_schedule(t) ==
  IF \E i \in 1..Len(t) : t[i] = "!"
    THEN strip(SelectSeq(t, LAMBDA x : x # "!"))
    ELSE t

\* _build_order_metadata: validate_order's exception for an order without
\* payload and media is caught, the order is built again from the same
\* clean text, and the clean text is returned; the metadata's media is None.
_build_order_metadata(order_text) == parse_priority_and_schedule(order_text)

\* bot.py handle_text for an authorized sender: an empty text is refused;
\* the text is routed and cleaned, create_enhanced_order writes the order
\* with the clean text as payload, and the file is tracked.
handle_text ==
  \E text \in Texts :
    LET order_text == strip(text)
        clean_text == _build_order_metadata(resolve_project(order_text))
    IN /\ order_text # <<>>
       /\ WriteOrderFile(now, IF clean_text = <<>> THEN "blank" ELSE "text", NoChat)
       /\ pending_orders' = pending_orders \cup {now}
       /\ UNCHANGED <<envVars, claimed, archive, responses, outbox, inbound,
                      outbound, hVars, cVars, eVars, pVars, wVars, bVars, sVars,
                      xVars, oVars, respWritten, announced>>

\* Senders who are not in self.authorized, and the handlers that
\* TelegramChannel.start registers.
Strangers == (NumUsers + 1)..(NumUsers + NumStrangers)
Handlers == {"text", "start", "help", "status", "concerns", "order", "machines"}

is_authorized(user_id) == user_id \in Users

\* A faulty handler: the text handler without the allow-list check tracks
\* an order for the stranger's text.
RefuseAfterTracking(user_id, handler) ==
  /\ ~is_authorized(user_id)
  /\ Len(unauthorized) < MaxUpdates
  /\ unauthorized' = Append(unauthorized, [from |-> user_id, handler |-> handler])
  /\ pending_orders' = IF handler = "text" THEN pending_orders \cup {now}
                        ELSE pending_orders
  /\ replies' = replies
  /\ UNCHANGED <<failure_count, running, heartbeat_status,
                 nextSer, fsVars, envVars, inbound, outbound, hVars, cVars,
                 eVars, pVars, oVars, wVars, bVars, sVars, histVars, corrupted,
                 index, fpc, url, index_data, monitors, note, returned>>

\* _on_text, cmd_help (/start, /help), cmd_concerns, cmd_order and
\* cmd_machines return at once for a sender who is not authorized;
\* cmd_status first replies with the sender's user id.
Refuse(user_id, handler) ==
  /\ ~is_authorized(user_id)
  /\ Len(unauthorized) < MaxUpdates
  /\ unauthorized' = Append(unauthorized, [from |-> user_id, handler |-> handler])
  /\ replies' = IF handler = "status"
                  THEN replies \cup {[to |-> user_id, user_id |-> user_id,
                                      update |-> Len(unauthorized) + 1]}
                  ELSE replies
  /\ UNCHANGED <<failure_count, running, heartbeat_status,
                 nextSer, fsVars, envVars, chanVars, hVars, cVars, eVars, pVars,
                 oVars, wVars, bVars, sVars, histVars, corrupted, index, fpc, url,
                 index_data, monitors, note, returned>>

\* ------------------------------------------------------ the Hermes daemon
\* sorted(ORDERS_DIR.glob("*.json")): timestamp names sort before the
\* session-key names ("telegram:<chat>", a user id).
FileRank(o) == IF o = SessionKey THEN MaxClock + 1 ELSE o
FirstOf(S) == CHOOSE o \in S : \A q \in S : FileRank(o) <= FileRank(q)

\* archive_order's record: the order as read, marked acknowledged.
Acknowledged(order, by) ==
  [order EXCEPT !.acknowledged = TRUE, !.acknowledged_at = TRUE,
                !.acknowledged_by = by]

\* main: "while running:", one pass of the poll loop starts; the glob is
\* a snapshot.
HermesScan ==
  /\ hpc = "sleep"
  /\ running
  /\ hscan' = {o \in Ids : Exists(pending[o])}
  /\ hpc' = "next"
  /\ UNCHANGED <<nextSer, fsVars, envVars, chanVars, hfile, horder, hid, hresp,
                 cVars, eVars, pVars, wVars, bVars, sVars, xVars, oVars, histVars>>

\* An order file whose content is not JSON: text that json.loads rejects
\* ("unparseable") or bytes that read_text cannot decode ("undecodable").
Corrupt(f) == f.payload \in {"unparseable", "undecodable"}

\* A file that is not JSON is left in the orders directory (by a writer
\* that died within its write, or by hand).
UnparseableOrder ==
  /\ \E o \in Ids, content \in {"unparseable", "undecodable"} :
       /\ ~Exists(pending[o])
       /\ WriteOrderFile(o, content, NoChat)
  /\ UNCHANGED <<envVars, claimed, archive, responses, outbox, chanVars,
                 hVars, cVars, eVars, pVars, wVars, bVars, sVars, xVars, oVars,
                 respWritten, announced>>

\* main: "if not running: break" lets the pass go on only while running.
\* The next file of the snapshot is read.  On a JSONDecodeError the
\* file is renamed into the corrupted directory; read_text's
\* UnicodeDecodeError is caught nowhere and ends the daemon; a vanished
\* file and an acknowledged order are skipped; any other order goes to
\* process_order.  After the last file update_heartbeat.
HermesNext ==
  /\ hpc = "next"
  /\ running
  /\ IF hscan = {}
       THEN /\ heartbeatFresh' = TRUE
            /\ heartbeat_status' = "running"
            /\ hpc' = "sleep"
            /\ UNCHANGED <<hscan, hfile, pending, corrupted>>
       ELSE LET o == FirstOf(hscan) IN
            /\ hscan' = hscan \ {o}
            /\ heartbeatFresh' = heartbeatFresh
            /\ heartbeat_status' = heartbeat_status
            /\ IF pending[o].payload = "undecodable"
                 THEN /\ hfile' = hfile /\ hpc' = "crashed"
                      /\ UNCHANGED <<pending, corrupted>>
                 ELSE IF pending[o].payload = "unparseable"
                 THEN /\ hfile' = hfile /\ hpc' = "next"
                      /\ corrupted' = [corrupted EXCEPT ![o] = pending[o]]
                      /\ pending' = [pending EXCEPT ![o] = NoOrder]
                 ELSE /\ UNCHANGED <<pending, corrupted>>
                      /\ IF Exists(pending[o]) /\ ~pending[o].acknowledged
                           THEN hfile' = o /\ hpc' = "claim"
                           ELSE hfile' = hfile /\ hpc' = "next"
  /\ UNCHANGED <<failure_count, running, nextSer, claimed, archive, responses,
                 outbox, now, faults, binaryPresent, chanVars, horder, hid,
                 hresp, cVars, eVars, pVars,
                 wVars, bVars, sVars, unauthorized, replies, index, fpc, url,
                 index_data, monitors, note, returned, oVars, histVars>>

\* process_order: order_file.rename(claimed_file); FileNotFoundError returns False.
HermesClaim ==
  /\ hpc = "claim"
  /\ IF Exists(pending[hfile])
       THEN /\ claimed' = [claimed EXCEPT ![hfile] = pending[hfile]]
            /\ pending' = [pending EXCEPT ![hfile] = NoOrder]
            /\ hpc' = "read"
       ELSE /\ hpc' = "next"
            /\ UNCHANGED <<pending, claimed>>
  /\ horder' = NoOrder /\ hid' = hfile /\ hresp' = "none"
  /\ UNCHANGED <<nextSer, archive, responses, outbox, envVars, chanVars,
                 hscan, hfile, cVars, eVars, pVars, wVars, bVars, sVars, xVars, oVars,
                 overwritten, respWritten, announced>>

\* process_order: the claimed file is read and validated; call_agent
\* resolves the binary and, without one, returns its error text at once.
HermesRead ==
  /\ hpc = "read"
  /\ IF ~Exists(claimed[hfile]) \/ Corrupt(claimed[hfile])
       THEN hpc' = "except" /\ UNCHANGED <<horder, hresp>>
       ELSE /\ horder' = claimed[hfile]
            /\ IF claimed[hfile].payload = "blank"
                 THEN hpc' = "requeue" /\ hresp' = hresp
                 ELSE IF binaryPresent
                   THEN hpc' = "agent" /\ hresp' = hresp
                   ELSE hpc' = "write_response" /\ hresp' = "unavailable"
  /\ UNCHANGED <<nextSer, fsVars, envVars, chanVars, hscan, hfile, hid,
                 cVars, eVars, pVars, wVars, bVars, sVars, xVars, oVars, overwritten, respWritten, announced>>

\* process_order: an order with neither payload nor media is renamed back.
HermesRequeue ==
  /\ hpc = "requeue"
  /\ IF Exists(claimed[hfile])
       THEN /\ pending' = [pending EXCEPT ![hfile] = claimed[hfile]]
            /\ claimed' = [claimed EXCEPT ![hfile] = NoOrder]
            /\ hpc' = "next"
            /\ horder' = NoOrder
       ELSE /\ hpc' = "except"
            /\ UNCHANGED <<pending, claimed, horder>>
  /\ UNCHANGED <<nextSer, archive, responses, outbox, envVars, chanVars,
                 hscan, hfile, hid, hresp, cVars, eVars, pVars, wVars, bVars, sVars, xVars, oVars,
                 overwritten, respWritten, announced>>

\* call_agent: the subprocess ends; every outcome is returned as text.
HermesAgentReturns ==
  /\ hpc = "agent"
  /\ hresp' \in {"ok", "failed"}
  /\ hpc' = "write_response"
  /\ UNCHANGED <<nextSer, fsVars, envVars, chanVars, hscan, hfile, horder, hid,
                 cVars, eVars, pVars, wVars, bVars, sVars, xVars, oVars, histVars>>

\* A faulty write_response step: the daemon goes on to archive_order
\* without having written the response file.
HermesSkipsResponse ==
  /\ hpc = "write_response"
  /\ hpc' = "archive"
  /\ UNCHANGED <<nextSer, fsVars, envVars, chanVars, hscan, hfile, horder, hid,
                 hresp, cVars, eVars, pVars, wVars, bVars, sVars, xVars, oVars, histVars>>

\* write_response: galaxy-order-response-<order_id>.md is written.
HermesWriteResponse ==
  /\ hpc = "write_response"
  /\ \/ /\ responses' = [responses EXCEPT ![hid] = horder.ser]
        /\ respWritten' = respWritten \cup {horder.ser}
        /\ hpc' = "archive"
        /\ faults' = faults
     \/ /\ faults < MaxFaults
        /\ faults' = faults + 1
        /\ hpc' = "except"
        /\ UNCHANGED <<responses, respWritten>>
  /\ UNCHANGED <<nextSer, pending, claimed, archive, outbox, now, heartbeatFresh,
                 binaryPresent, chanVars, hscan, hfile, horder, hid, hresp,
                 cVars, eVars, pVars, wVars, bVars, sVars, xVars, oVars, overwritten, announced>>

\* archive_order: archive_file.write_text(order marked acknowledged).
HermesArchiveWrite ==
  /\ hpc = "archive"
  /\ archive' = [archive EXCEPT ![hid] = Acknowledged(horder, "Hermes")]
  /\ hpc' = "unlink"
  /\ UNCHANGED <<nextSer, pending, claimed, responses, outbox, envVars, chanVars,
                 hscan, hfile, horder, hid, hresp, cVars, eVars, pVars, wVars, bVars, sVars, xVars, oVars, histVars>>

\* archive_order: claimed_file.unlink().
HermesArchiveUnlink ==
  /\ hpc = "unlink"
  /\ IF Exists(claimed[hfile])
       THEN claimed' = [claimed EXCEPT ![hfile] = NoOrder] /\ hpc' = "notify"
       ELSE claimed' = claimed /\ hpc' = "except"
  /\ UNCHANGED <<nextSer, pending, archive, responses, outbox, envVars, chanVars,
                 hscan, hfile, horder, hid, hresp, cVars, eVars, pVars, wVars, bVars, sVars, xVars, oVars, histVars>>

\* send_notification: hermes-<order_id>.json, severity "success", message
\* is the response text.
send_notification ==
  /\ outbox' = [outbox EXCEPT ![<<"hermes", hid>>] = Notif("success", horder.ser, horder.chat_id)]
  /\ announced' = [announced EXCEPT ![horder.ser] = @ + 1]

HermesNotify ==
  /\ hpc = "notify"
  /\ send_notification
  /\ hpc' = "cleanup"
  /\ UNCHANGED <<nextSer, pending, claimed, archive, responses, envVars, chanVars,
                 hscan, hfile, horder, hid, hresp, cVars, eVars, pVars, wVars, bVars, sVars, xVars, oVars,
                 overwritten, respWritten>>

\* process_order: log_response, response_file.unlink() (OSError ignored),
\* return True.
HermesCleanup ==
  /\ hpc = "cleanup"
  /\ responses' = [responses EXCEPT ![hid] = 0]
  /\ hpc' = "next"
  /\ horder' = NoOrder /\ hresp' = "none"
  /\ UNCHANGED <<nextSer, pending, claimed, archive, outbox, envVars, chanVars,
                 hscan, hfile, hid, cVars, eVars, pVars, wVars, bVars, sVars, xVars, oVars,
                 overwritten, respWritten, announced>>

\* process_order's except branch: stats["failure_count"] is incremented,
\* the failure is logged, and the claimed file, if it exists, is renamed
\* back to the order file; return False.
\* The model follows the daemon up to its MaxFailures-th failure.
HermesExcept ==
  /\ hpc = "except"
  /\ failure_count < MaxFailures
  /\ IF Exists(claimed[hfile])
       THEN /\ pending' = [pending EXCEPT ![hfile] = claimed[hfile]]
            /\ claimed' = [claimed EXCEPT ![hfile] = NoOrder]
       ELSE UNCHANGED <<pending, claimed>>
  /\ failure_count' = failure_count + 1
  /\ hpc' = "next"
  /\ horder' = NoOrder /\ hresp' = "none"
  /\ UNCHANGED <<nextSer, archive, responses, outbox, envVars, chanVars,
                 hscan, hfile, hid, cVars, eVars, pVars, wVars, bVars, sVars, unauthorized, replies, corrupted, index,
                 fpc, url, note, index_data, monitors, returned, running,
                 heartbeat_status, oVars,
                 overwritten, respWritten, announced>>

\* shutdown, the handler of SIGINT and SIGTERM: running = False.  The
\* signal arrives at any point of the daemon's work.
shutdown ==
  /\ running
  /\ hpc \notin {"stopped", "crashed"}
  /\ running' = FALSE
  /\ UNCHANGED <<nextSer, fsVars, envVars, chanVars, hVars, cVars, eVars, pVars,
                 wVars, bVars, sVars, unauthorized, replies, corrupted, index,
                 fpc, url, note, index_data, monitors, returned, failure_count,
                 heartbeat_status, oVars, histVars>>

\* A faulty end of main: the daemon stops without clear_heartbeat.
HermesStopKeepsHeartbeat ==
  /\ ~running
  /\ hpc \in {"sleep", "next"}
  /\ hpc' = "stopped"
  /\ UNCHANGED <<nextSer, fsVars, envVars, chanVars, hscan, hfile, horder, hid,
                 hresp, cVars, eVars, pVars, wVars, bVars, sVars, unauthorized,
                 replies, corrupted, index, fpc, url, note, index_data,
                 monitors, returned, failure_count, running, heartbeat_status,
                 oVars, histVars>>

\* main once running is False: the for loop breaks before the next file
\* (or the sleep loop breaks), update_heartbeat runs after a broken pass,
\* the while loop ends, and clear_heartbeat rewrites the heartbeat file
\* with status "stopped".
HermesStop ==
  /\ ~running
  /\ hpc \in {"sleep", "next"}
  /\ hpc' = "stopped"
  /\ heartbeat_status' = "stopped"
  /\ heartbeatFresh' = FALSE
  /\ UNCHANGED <<nextSer, fsVars, now, faults, binaryPresent, chanVars, hscan,
                 hfile, horder, hid, hresp, cVars, eVars, pVars, wVars, bVars,
                 sVars, unauthorized, replies, corrupted, index, fpc, url, note,
                 index_data, monitors, returned, failure_count, running, oVars,
                 histVars>>

\* The daemon's steps for orders that carry a payload.  HermesRequeue is
\* taken only for an order file with a blank payload; the channels of this
\* module write none (_on_text and cmd_order refuse an empty text).
HermesExecutes ==
  \/ HermesScan \/ HermesNext \/ HermesClaim \/ HermesRead
  \/ HermesAgentReturns \/ HermesWriteResponse \/ HermesArchiveWrite
  \/ HermesArchiveUnlink \/ HermesNotify \/ HermesCleanup \/ HermesExcept

\* ------------------------------------------- the MCP tool galaxy_execute
\* galaxy_execute(order_id): order_file.exists(), is_standby_session_active().
ExecuteStart(c, o) ==
  /\ cpc[c] = "idle"
  /\ cfile' = [cfile EXCEPT ![c] = o]
  /\ corder' = corder
  /\ IF ~Exists(pending[o])
       THEN cres' = [cres EXCEPT ![c] = "not_found"] /\ cpc' = cpc
       ELSE IF heartbeatFresh
         THEN cres' = [cres EXCEPT ![c] = "delegated"] /\ cpc' = cpc
         ELSE cres' = [cres EXCEPT ![c] = "none"]
              /\ cpc' = [cpc EXCEPT ![c] = "claim"]
  /\ UNCHANGED <<nextSer, fsVars, envVars, chanVars, hVars, eVars, pVars, wVars, bVars, sVars, xVars, oVars, histVars>>

\* A faulty claim step: the FileNotFoundError of the rename is left to the
\* generic except branch, which renames `.processing` back.
ExecuteClaimFallsToExcept(c) ==
  /\ cpc[c] = "claim"
  /\ IF Exists(pending[cfile[c]])
       THEN /\ claimed' = [claimed EXCEPT ![cfile[c]] = pending[cfile[c]]]
            /\ pending' = [pending EXCEPT ![cfile[c]] = NoOrder]
            /\ cpc' = [cpc EXCEPT ![c] = "read"]
       ELSE /\ cpc' = [cpc EXCEPT ![c] = "except"]
            /\ UNCHANGED <<pending, claimed>>
  /\ UNCHANGED <<nextSer, archive, responses, outbox, envVars, chanVars,
                 hVars, cfile, corder, cres, eVars, pVars, wVars, bVars, sVars, xVars, oVars, histVars>>

\* order_file.rename(claimed_file); FileNotFoundError returns the
\* "already claimed" error.
ExecuteClaim(c) ==
  /\ cpc[c] = "claim"
  /\ IF Exists(pending[cfile[c]])
       THEN /\ claimed' = [claimed EXCEPT ![cfile[c]] = pending[cfile[c]]]
            /\ pending' = [pending EXCEPT ![cfile[c]] = NoOrder]
            /\ cpc' = [cpc EXCEPT ![c] = "read"]
            /\ cres' = cres
       ELSE /\ cpc' = [cpc EXCEPT ![c] = "idle"]
            /\ cres' = [cres EXCEPT ![c] = "already_claimed"]
            /\ UNCHANGED <<pending, claimed>>
  /\ UNCHANGED <<nextSer, archive, responses, outbox, envVars, chanVars,
                 hVars, cfile, corder, eVars, pVars, wVars, bVars, sVars, xVars, oVars, histVars>>

\* The claimed file is read, the payload validated, the binary resolved.
ExecuteRead(c) ==
  /\ cpc[c] = "read"
  /\ IF ~Exists(claimed[cfile[c]])
       THEN /\ cpc' = [cpc EXCEPT ![c] = "except"]
            /\ UNCHANGED <<corder, cres>>
       ELSE /\ corder' = [corder EXCEPT ![c] = claimed[cfile[c]]]
            /\ IF claimed[cfile[c]].payload = "blank"
                 THEN /\ cpc' = [cpc EXCEPT ![c] = "release"]
                      /\ cres' = [cres EXCEPT ![c] = "empty_payload"]
                 ELSE IF ~binaryPresent
                   THEN /\ cpc' = [cpc EXCEPT ![c] = "release"]
                        /\ cres' = [cres EXCEPT ![c] = "unavailable"]
                   ELSE /\ cpc' = [cpc EXCEPT ![c] = "run"]
                        /\ cres' = cres
  /\ UNCHANGED <<nextSer, fsVars, envVars, chanVars, hVars, cfile, eVars, pVars, wVars, bVars, sVars, xVars, oVars,
                 histVars>>

\* A faulty release step: the error result is returned with the claim
\* left in place.
ExecuteReturnsClaimed(c) ==
  /\ cpc[c] = "release"
  /\ cpc' = [cpc EXCEPT ![c] = "idle"]
  /\ corder' = [corder EXCEPT ![c] = NoOrder]
  /\ UNCHANGED <<nextSer, fsVars, envVars, chanVars, hVars, cfile, cres, eVars,
                 pVars, wVars, bVars, sVars, xVars, oVars, histVars>>

\* claimed_file.rename(order_file) and return of the error result; a
\* failing rename lands in the generic except branch.
ExecuteRelease(c) ==
  /\ cpc[c] = "release"
  /\ IF Exists(claimed[cfile[c]])
       THEN /\ pending' = [pending EXCEPT ![cfile[c]] = claimed[cfile[c]]]
            /\ claimed' = [claimed EXCEPT ![cfile[c]] = NoOrder]
            /\ cres' = cres
       ELSE /\ cres' = [cres EXCEPT ![c] = "error"]
            /\ UNCHANGED <<pending, claimed>>
  /\ cpc' = [cpc EXCEPT ![c] = "idle"]
  /\ corder' = [corder EXCEPT ![c] = NoOrder]
  /\ UNCHANGED <<nextSer, archive, responses, outbox, envVars, chanVars,
                 hVars, cfile, eVars, pVars, wVars, bVars, sVars, xVars, oVars, histVars>>

\* subprocess.run returns (exit 0 or not) or raises TimeoutExpired, whose
\* handler renames the claim back.
ExecuteRun(c) ==
  /\ cpc[c] = "run"
  /\ \/ /\ \E r \in {"success", "failed"} : cres' = [cres EXCEPT ![c] = r]
        /\ cpc' = [cpc EXCEPT ![c] = "write_response"]
        /\ UNCHANGED <<pending, claimed, corder>>
     \/ /\ cres' = [cres EXCEPT ![c] = "timeout"]
        /\ cpc' = [cpc EXCEPT ![c] = "idle"]
        /\ corder' = [corder EXCEPT ![c] = NoOrder]
        /\ IF Exists(claimed[cfile[c]])
             THEN /\ pending' = [pending EXCEPT ![cfile[c]] = claimed[cfile[c]]]
                  /\ claimed' = [claimed EXCEPT ![cfile[c]] = NoOrder]
             ELSE UNCHANGED <<pending, claimed>>
  /\ UNCHANGED <<nextSer, archive, responses, outbox, envVars, chanVars,
                 hVars, cfile, eVars, pVars, wVars, bVars, sVars, xVars, oVars, histVars>>

\* response_file.write_text(...)
ExecuteWriteResponse(c) ==
  /\ cpc[c] = "write_response"
  /\ \/ /\ responses' = [responses EXCEPT ![cfile[c]] = corder[c].ser]
        /\ respWritten' = respWritten \cup {corder[c].ser}
        /\ cpc' = [cpc EXCEPT ![c] = "archive"]
        /\ faults' = faults
     \/ /\ faults < MaxFaults
        /\ faults' = faults + 1
        /\ cpc' = [cpc EXCEPT ![c] = "except"]
        /\ UNCHANGED <<responses, respWritten>>
  /\ UNCHANGED <<nextSer, pending, claimed, archive, outbox, now, heartbeatFresh,
                 binaryPresent, chanVars, hVars, cfile, corder, cres, eVars, pVars, wVars, bVars, sVars, xVars, oVars,
                 overwritten, announced>>

\* order marked acknowledged; archive_file.write_text(order)
ExecuteArchiveWrite(c) ==
  /\ cpc[c] = "archive"
  /\ archive' = [archive EXCEPT ![cfile[c]] =
                   Acknowledged(corder[c], "Galaxy MCP Server")]
  /\ cpc' = [cpc EXCEPT ![c] = "unlink"]
  /\ UNCHANGED <<nextSer, pending, claimed, responses, outbox, envVars, chanVars,
                 hVars, cfile, corder, cres, eVars, pVars, wVars, bVars, sVars, xVars, oVars, histVars>>

\* claimed_file.unlink()
ExecuteUnlink(c) ==
  /\ cpc[c] = "unlink"
  /\ IF Exists(claimed[cfile[c]])
       THEN /\ claimed' = [claimed EXCEPT ![cfile[c]] = NoOrder]
            /\ cpc' = [cpc EXCEPT ![c] = "outbox"]
       ELSE /\ claimed' = claimed
            /\ cpc' = [cpc EXCEPT ![c] = "except"]
  /\ UNCHANGED <<nextSer, pending, archive, responses, outbox, envVars, chanVars,
                 hVars, cfile, corder, cres, eVars, pVars, wVars, bVars, sVars, xVars, oVars, histVars>>

\* The outbox notification <clock second>.json: "success" for exit 0,
\* "warning" otherwise; the result is returned.
ExecuteOutbox(c) ==
  /\ cpc[c] = "outbox"
  /\ outbox' = [outbox EXCEPT ![<<"mcp", now>>] =
                  Notif(IF cres[c] = "success" THEN "success" ELSE "warning",
                        corder[c].ser, NoChat)]
  /\ cpc' = [cpc EXCEPT ![c] = "idle"]
  /\ corder' = [corder EXCEPT ![c] = NoOrder]
  /\ UNCHANGED <<nextSer, pending, claimed, archive, responses, envVars, chanVars,
                 hVars, cfile, cres, eVars, pVars, wVars, bVars, sVars, xVars, oVars, histVars>>

\* except Exception: claimed_file.rename(order_file), OSError ignored.
ExecuteExcept(c) ==
  /\ cpc[c] = "except"
  /\ IF Exists(claimed[cfile[c]])
       THEN /\ pending' = [pending EXCEPT ![cfile[c]] = claimed[cfile[c]]]
            /\ claimed' = [claimed EXCEPT ![cfile[c]] = NoOrder]
       ELSE UNCHANGED <<pending, claimed>>
  /\ cres' = [cres EXCEPT ![c] = "error"]
  /\ cpc' = [cpc EXCEPT ![c] = "idle"]
  /\ corder' = [corder EXCEPT ![c] = NoOrder]
  /\ UNCHANGED <<nextSer, archive, responses, outbox, envVars, chanVars,
                 hVars, cfile, eVars, pVars, wVars, bVars, sVars, xVars, oVars, histVars>>

galaxy_execute(c) ==
  \/ \E o \in Ids : ExecuteStart(c, o)
  \/ ExecuteClaim(c) \/ ExecuteRead(c) \/ ExecuteRelease(c) \/ ExecuteRun(c)
  \/ ExecuteWriteResponse(c) \/ ExecuteArchiveWrite(c) \/ ExecuteUnlink(c)
  \/ ExecuteOutbox(c) \/ ExecuteExcept(c)

\* --------------------------------------- the MCP tool galaxy_acknowledge
\* order_file.exists() and json.loads(order_file.read_text()); a file that
\* has vanished returns an error.
AcknowledgeStart(c, o) ==
  /\ cpc[c] = "idle"
  /\ cfile' = [cfile EXCEPT ![c] = o]
  /\ IF Exists(pending[o])
       THEN /\ corder' = [corder EXCEPT ![c] = pending[o]]
            /\ cpc' = [cpc EXCEPT ![c] = "ack_archive"]
            /\ cres' = [cres EXCEPT ![c] = "none"]
       ELSE /\ corder' = [corder EXCEPT ![c] = NoOrder]
            /\ cpc' = cpc
            /\ cres' = [cres EXCEPT ![c] = "not_found"]
  /\ UNCHANGED <<nextSer, fsVars, envVars, chanVars, hVars, eVars, pVars, wVars, bVars, sVars, xVars, oVars, histVars>>

\* archive_file.write_text(order marked acknowledged)
AcknowledgeArchiveWrite(c) ==
  /\ cpc[c] = "ack_archive"
  /\ archive' = [archive EXCEPT ![cfile[c]] =
                   Acknowledged(corder[c], "Galaxy MCP Server (manual)")]
  /\ cpc' = [cpc EXCEPT ![c] = "ack_unlink"]
  /\ UNCHANGED <<nextSer, pending, claimed, responses, outbox, envVars, chanVars,
                 hVars, cfile, corder, cres, eVars, pVars, wVars, bVars, sVars, xVars, oVars, histVars>>

\* order_file.unlink(); an exception returns an error.
AcknowledgeUnlink(c) ==
  /\ cpc[c] = "ack_unlink"
  /\ IF Exists(pending[cfile[c]])
       THEN /\ pending' = [pending EXCEPT ![cfile[c]] = NoOrder]
            /\ cres' = [cres EXCEPT ![c] = "acknowledged"]
       ELSE /\ pending' = pending
            /\ cres' = [cres EXCEPT ![c] = "error"]
  /\ cpc' = [cpc EXCEPT ![c] = "idle"]
  /\ corder' = [corder EXCEPT ![c] = NoOrder]
  /\ UNCHANGED <<nextSer, claimed, archive, responses, outbox, envVars, chanVars,
                 hVars, cfile, eVars, pVars, wVars, bVars, sVars, xVars, oVars, histVars>>

galaxy_acknowledge(c) ==
  \/ \E o \in Ids : AcknowledgeStart(c, o)
  \/ AcknowledgeArchiveWrite(c) \/ AcknowledgeUnlink(c)

\* -------------------------- executor_loop and HermesExecutor.execute
\* A heartbeat notification heartbeat-<order_id>-<int(elapsed)>.json.
Heartbeat(e) ==
  [at |-> e, min |-> e \div 60, sent |-> FALSE, chat_id |-> SessionChat]

\* A faulty consume: the newest message of the queue is taken.
ExecutorTakesNewest ==
  /\ epc = "consume"
  /\ inbound # <<>>
  /\ inbound' = SubSeq(inbound, 1, Len(inbound) - 1)
  /\ consumed' = Append(consumed, inbound[Len(inbound)].msg)
  /\ WriteOrderFile(SessionKey, inbound[Len(inbound)].content, SessionChat)
  /\ eser' = nextSer
  /\ epc' = "processing"
  /\ eres' = "none"
  /\ elapsed' = 0 /\ last_heartbeat' = 0 /\ beats' = <<>> /\ etext' = 0
  /\ UNCHANGED <<envVars, claimed, archive, responses, outbox, pending_orders,
                 outbound, hVars, cVars, pVars, wVars, sVars, xVars, nextMsg, dVars, oVars,
                 hbfiles, respWritten, announced>>

\* executor_loop consumes a message; execute writes the order file
\* <session key>.json.  A write that raises lands in execute's except
\* branch, which returns the "Execution error".
ExecutorWriteOrder ==
  /\ epc = "consume"
  /\ inbound # <<>>
  /\ inbound' = Tail(inbound)
  /\ consumed' = Append(consumed, Head(inbound).msg)
  /\ \/ /\ WriteOrderFile(SessionKey, Head(inbound).content, SessionChat)
        /\ eser' = nextSer
        /\ epc' = "processing"
        /\ eres' = "none"
        /\ faults' = faults
     \/ /\ faults < MaxFaults
        /\ faults' = faults + 1
        /\ eser' = 0
        /\ epc' = "returned"
        /\ eres' = "error"
        /\ UNCHANGED <<pending, nextSer, overwritten>>
  /\ elapsed' = 0 /\ last_heartbeat' = 0 /\ beats' = <<>> /\ etext' = 0
  /\ UNCHANGED <<now, heartbeatFresh, binaryPresent, claimed, archive, responses,
                 outbox, pending_orders, outbound, hVars, cVars, pVars, wVars, sVars, xVars,
                 nextMsg, dVars, oVars, hbfiles, respWritten, announced>>

\* execute: the processing-<order_id>.json notification is written; if the
\* write raises, the except branch unlinks that file and returns the error.
ExecutorProcessingNotif ==
  /\ epc = "processing"
  /\ \/ /\ outbox' = [outbox EXCEPT ![<<"processing", SessionKey>>] = Notif("info", eser, SessionChat)]
        /\ epc' = "wait"
        /\ UNCHANGED <<faults, eres>>
     \/ /\ faults < MaxFaults
        /\ faults' = faults + 1
        /\ outbox' = [outbox EXCEPT ![<<"processing", SessionKey>>] = NoNotif]
        /\ epc' = "returned"
        /\ eres' = "error"
  /\ UNCHANGED <<nextSer, pending, claimed, archive, responses, now, heartbeatFresh,
                 binaryPresent, chanVars, hVars, cVars, eser, etext, elapsed,
                 last_heartbeat, hbfiles, beats, pVars, wVars, bVars, sVars, xVars, oVars, histVars>>

\* A faulty round of the wait loop: the time of the last heartbeat is not
\* looked at, a heartbeat is written in every round after the first minute.
ExecutorPollBeatsEveryRound ==
  /\ epc = "wait"
  /\ elapsed < Timeout
  /\ IF responses[SessionKey] # 0
       THEN /\ epc' = "read"
            /\ UNCHANGED <<last_heartbeat, hbfiles, beats>>
       ELSE /\ epc' = "sleep"
            /\ IF elapsed >= HEARTBEAT_INTERVAL
                 THEN /\ last_heartbeat' = elapsed
                      /\ beats' = Append(beats, elapsed)
                      /\ hbfiles' = {h \in hbfiles : h.at # elapsed}
                                       \cup {Heartbeat(elapsed)}
                 ELSE UNCHANGED <<last_heartbeat, hbfiles, beats>>
  /\ UNCHANGED <<nextSer, fsVars, envVars, chanVars, hVars, cVars, eser, eres,
                 etext, elapsed, pVars, wVars, bVars, sVars, xVars, oVars, histVars>>

\* execute, one round of the wait loop before the timeout: response_file.exists();
\* without a response, the file heartbeat-<order_id>-<int(elapsed)>.json is
\* written when 60 s have elapsed since the start and since the last
\* heartbeat, and last_heartbeat is set.
ExecutorPoll ==
  /\ epc = "wait"
  /\ elapsed < Timeout
  /\ IF responses[SessionKey] # 0
       THEN /\ epc' = "read"
            /\ UNCHANGED <<last_heartbeat, hbfiles, beats>>
       ELSE /\ epc' = "sleep"
            /\ IF elapsed >= HEARTBEAT_INTERVAL
                  /\ elapsed - last_heartbeat >= HEARTBEAT_INTERVAL
                 THEN /\ last_heartbeat' = elapsed
                      /\ beats' = Append(beats, elapsed)
                      /\ hbfiles' = {h \in hbfiles : h.at # elapsed}
                                       \cup {Heartbeat(elapsed)}
                 ELSE UNCHANGED <<last_heartbeat, hbfiles, beats>>
  /\ UNCHANGED <<nextSer, fsVars, envVars, chanVars, hVars, cVars, eser, eres,
                 etext, elapsed, pVars, wVars, bVars, sVars, xVars, oVars, histVars>>

\* execute: await asyncio.sleep(self.poll_interval)
ExecutorSleep ==
  /\ epc = "sleep"
  /\ elapsed' = elapsed + PollInterval
  /\ epc' = "wait"
  /\ UNCHANGED <<nextSer, fsVars, envVars, chanVars, hVars, cVars, eser, eres,
                 etext, last_heartbeat, hbfiles, beats, pVars, wVars, bVars, sVars, xVars, oVars, histVars>>

\* execute: response_file.read_text(), unlink, removal of the processing
\* and heartbeat notifications, return of the success.
\* If the response file has vanished since exists(), read_text raises and
\* the except branch removes the processing notification only.
ExecutorRead ==
  /\ epc = "read"
  /\ IF responses[SessionKey] = 0
       THEN /\ eres' = "error"
            /\ UNCHANGED <<responses, etext, hbfiles>>
       ELSE /\ eres' = "success"
            /\ etext' = responses[SessionKey]
            /\ hbfiles' = {}
            /\ responses' = [responses EXCEPT ![SessionKey] = 0]
  /\ outbox' = [outbox EXCEPT ![<<"processing", SessionKey>>] = NoNotif]
  /\ epc' = "returned"
  /\ UNCHANGED <<nextSer, pending, claimed, archive, envVars, chanVars,
                 hVars, cVars, eser, elapsed, last_heartbeat, beats, pVars, wVars, bVars, sVars, xVars,
                 oVars, histVars>>

\* A faulty timeout step: the wait is given up before the timeout.
ExecutorTimeoutAtOnce ==
  /\ epc = "wait"
  /\ pending' = [pending EXCEPT ![SessionKey] = NoOrder]
  /\ outbox' = [outbox EXCEPT ![<<"processing", SessionKey>>] = NoNotif]
  /\ hbfiles' = {}
  /\ epc' = "returned"
  /\ eres' = "timeout"
  /\ UNCHANGED <<nextSer, claimed, archive, responses, envVars, chanVars,
                 hVars, cVars, eser, etext, elapsed, last_heartbeat, beats,
                 pVars, wVars, bVars, sVars, xVars, oVars, histVars>>

\* A faulty timeout step: the order file is left where it is.
ExecutorTimeoutKeepsOrder ==
  /\ epc = "wait"
  /\ elapsed >= Timeout
  /\ outbox' = [outbox EXCEPT ![<<"processing", SessionKey>>] = NoNotif]
  /\ hbfiles' = {}
  /\ epc' = "returned"
  /\ eres' = "timeout"
  /\ UNCHANGED <<nextSer, pending, claimed, archive, responses, envVars, chanVars,
                 hVars, cVars, eser, etext, elapsed, last_heartbeat, beats,
                 pVars, wVars, bVars, sVars, xVars, oVars, histVars>>

\* execute: the wait loop ends on the timeout: the order file is unlinked
\* if it (still) exists (an OSError of the unlink is ignored), the liveness
\* notifications are removed and the "Timeout after" failure is returned.
ExecutorTimeout ==
  /\ epc = "wait"
  /\ elapsed >= Timeout
  /\ \/ /\ pending' = [pending EXCEPT ![SessionKey] = NoOrder]
        /\ faults' = faults
     \/ /\ Exists(pending[SessionKey])
        /\ faults < MaxFaults
        /\ faults' = faults + 1
        /\ pending' = pending
  /\ outbox' = [outbox EXCEPT ![<<"processing", SessionKey>>] = NoNotif]
  /\ hbfiles' = {}
  /\ epc' = "returned"
  /\ eres' = "timeout"
  /\ UNCHANGED <<nextSer, claimed, archive, responses, now, heartbeatFresh,
                 binaryPresent, chanVars, hVars, cVars, eser, etext, elapsed,
                 last_heartbeat, beats, pVars, wVars, bVars, sVars, xVars, oVars, histVars>>

\* A faulty executor_loop step: every result is published.
ExecutorLoopPublishesAll ==
  /\ epc = "returned"
  /\ outbound' = Append(outbound, [chat |-> SessionKey, for |-> eser,
                                    content |-> etext])
  /\ epc' = "consume"
  /\ UNCHANGED <<nextSer, fsVars, envVars, pending_orders, inbound, hVars, cVars,
                 eser, eres, etext, elapsed, last_heartbeat, hbfiles, beats,
                 pVars, wVars, bVars, sVars, xVars, oVars, histVars>>

\* executor_loop: a successful result with response text is published as
\* one OutboundMessage for the message's channel and chat; an error is only
\* logged.  Then the next message is awaited.
ExecutorLoop ==
  /\ epc = "returned"
  /\ outbound' = IF eres = "success"
                   THEN Append(outbound, [chat |-> SessionKey, for |-> eser,
                                          content |-> etext])
                   ELSE outbound
  /\ epc' = "consume"
  /\ UNCHANGED <<nextSer, fsVars, envVars, pending_orders, inbound, hVars, cVars,
                 eser, eres, etext, elapsed, last_heartbeat, hbfiles, beats,
                 pVars, wVars, bVars, sVars, xVars, oVars, histVars>>

Executor ==
  \/ ExecutorWriteOrder \/ ExecutorProcessingNotif \/ ExecutorPoll \/ ExecutorSleep
  \/ ExecutorRead \/ ExecutorTimeout \/ ExecutorLoop

\* ------------------------------------------------- outbound_dispatcher
\* The messages of the outbound queue not yet taken by consume_outbound.
OutboundQueue == SubSeq(outbound, dpos + 1, Len(outbound))

\* msg = await bus.consume_outbound(): the head of the queue; its channel
\* is the Telegram channel, which the gateway has in channels.
DispatchConsume ==
  /\ dpc = "consume"
  /\ OutboundQueue # <<>>
  /\ dmsg' = Head(OutboundQueue)
  /\ dpos' = dpos + 1
  /\ dpc' = "send"
  /\ UNCHANGED <<nextSer, fsVars, envVars, chanVars, hVars, cVars, eVars, pVars,
                 oVars, wVars, sVars, xVars, nextMsg, consumed, received, dropped, histVars>>

\* A faulty dispatcher: a message whose send fails is put back and tried
\* again.
DispatchSendRetries ==
  /\ dpc = "send"
  /\ \/ /\ received' = Append(received, dmsg)
        /\ UNCHANGED <<dropped, faults, dpos>>
     \/ /\ faults < MaxFaults
        /\ faults' = faults + 1
        /\ dropped' = dropped \cup {dmsg.for}
        /\ dpos' = dpos - 1
        /\ received' = received
  /\ dpc' = "consume"
  /\ UNCHANGED <<nextSer, fsVars, now, heartbeatFresh, binaryPresent, chanVars,
                 hVars, cVars, eVars, pVars, oVars, wVars, sVars, xVars, nextMsg, consumed,
                 dmsg, histVars>>

\* await channel.send(msg): TelegramChannel.send tries send_message with
\* parse_mode HTML, then without; if both raise, the error is logged and
\* the message is gone.  Then the next message is awaited.
DispatchSend ==
  /\ dpc = "send"
  /\ \/ /\ received' = Append(received, dmsg)
        /\ UNCHANGED <<dropped, faults>>
     \/ /\ faults < MaxFaults
        /\ faults' = faults + 1
        /\ dropped' = dropped \cup {dmsg.for}
        /\ received' = received
  /\ dpc' = "consume"
  /\ UNCHANGED <<nextSer, fsVars, now, heartbeatFresh, binaryPresent, chanVars,
                 hVars, cVars, eVars, pVars, oVars, wVars, sVars, xVars, nextMsg, consumed,
                 dpos, dmsg, histVars>>

outbound_dispatcher == DispatchConsume \/ DispatchSend

\* ------------------------------------- the agent session record
\* Phrases that the checks of call_agent look for in the lower-cased
\* stderr of a failed run, in the combinations the model distinguishes.
Stderrs ==
  {{}, {"session"}, {"not found"}, {"session", "not found"},
   {"session", "invalid"}, {"session", "expired"}}

\* "session" in stderr and ("not found" in stderr or "invalid" in stderr
\* or "expired" in stderr)
InvalidSession(r) ==
  /\ "session" \in r.stderr
  /\ r.stderr \cap {"not found", "invalid", "expired"} # {}

\* _load_session_id / _load_enrichment_session_id: the id of a complete
\* record; a missing file and a JSONDecodeError give None.
LoadSessionId(f) == IF f.state = "complete" THEN f.session_id ELSE NoSid

\* What `opencode run [--session sid]` can return: success in the session
\* passed or in a new one, success without a sessionID on stdout, or a
\* failure with some stderr.
AgentResults(sid) ==
  {[returncode |-> 0, stderr |-> {}, sessionID |-> n] :
     n \in {NoSid} \cup (IF sid # NoSid THEN {sid}
                         ELSE IF nextSid <= MaxSessions THEN {nextSid} ELSE {})}
  \cup {[returncode |-> 1, stderr |-> e, sessionID |-> NoSid] : e \in Stderrs}

\* The agent has created a session for the run that returned r.
Created(sid, r) ==
  nextSid' = IF sid = NoSid /\ r.sessionID # NoSid THEN nextSid + 1 ELSE nextSid

\* call_agent: session_id = _load_session_id()
CallAgentLoad ==
  /\ apc = "idle"
  /\ session_id' = LoadSessionId(session_file)
  /\ passed' = <<>>
  /\ result' = NoResult
  /\ apc' = "run"
  /\ UNCHANGED <<nextSer, fsVars, envVars, chanVars, hVars, cVars, eVars, pVars,
                 oVars, wVars, bVars, xVars, histVars, session_file, nextSid, jpc, jsid, jread>>

\* A faulty first run: any failure of a run with a session id is followed
\* by a second run.
CallAgentRetriesAnyFailure ==
  /\ apc = "run"
  /\ passed' = Append(passed, session_id)
  /\ \/ \E r \in AgentResults(session_id) :
          /\ result' = r
          /\ Created(session_id, r)
          /\ apc' = IF session_id # NoSid /\ r.returncode # 0
                      THEN "rerun" ELSE "extract"
     \/ /\ apc' = "idle"
        /\ UNCHANGED <<result, nextSid>>
  /\ UNCHANGED <<nextSer, fsVars, envVars, chanVars, hVars, cVars, eVars, pVars,
                 oVars, wVars, bVars, xVars, histVars, session_file, session_id, jpc, jsid, jread>>

\* result = _run_opencode(payload, session_id).  A run that exceeds the
\* three minutes raises TimeoutExpired and call_agent returns.
CallAgentRun ==
  /\ apc = "run"
  /\ passed' = Append(passed, session_id)
  /\ \/ \E r \in AgentResults(session_id) :
          /\ result' = r
          /\ Created(session_id, r)
          /\ apc' = IF session_id # NoSid /\ r.returncode # 0 /\ InvalidSession(r)
                      THEN "rerun" ELSE "extract"
     \/ /\ apc' = "idle"
        /\ UNCHANGED <<result, nextSid>>
  /\ UNCHANGED <<nextSer, fsVars, envVars, chanVars, hVars, cVars, eVars, pVars,
                 oVars, wVars, bVars, xVars, histVars, session_file, session_id, jpc, jsid, jread>>

\* result = _run_opencode(payload): the run without a session id.
CallAgentRerun ==
  /\ apc = "rerun"
  /\ passed' = Append(passed, NoSid)
  /\ \/ \E r \in AgentResults(NoSid) :
          /\ result' = r
          /\ Created(NoSid, r)
          /\ apc' = "extract"
     \/ /\ apc' = "idle"
        /\ UNCHANGED <<result, nextSid>>
  /\ UNCHANGED <<nextSer, fsVars, envVars, chanVars, hVars, cVars, eVars, pVars,
                 oVars, wVars, bVars, xVars, histVars, session_file, session_id, jpc, jsid, jread>>

\* The sessionID of the run's stdout, if any, is saved: _save_session_id
\* opens the session file for writing, which truncates it; without a
\* sessionID call_agent returns.
CallAgentExtract ==
  /\ apc = "extract"
  /\ IF result.sessionID # NoSid
       THEN session_file' = EmptyFile /\ apc' = "write"
       ELSE session_file' = session_file /\ apc' = "idle"
  /\ UNCHANGED <<nextSer, fsVars, envVars, chanVars, hVars, cVars, eVars, pVars,
                 oVars, wVars, bVars, xVars, histVars, nextSid, session_id, result, passed, jpc, jsid, jread>>

\* _save_session_id: the JSON object is written and the file closed;
\* call_agent returns.
CallAgentWrite ==
  /\ apc = "write"
  /\ session_file' = SessionRecord(result.sessionID)
  /\ apc' = "idle"
  /\ UNCHANGED <<nextSer, fsVars, envVars, chanVars, hVars, cVars, eVars, pVars,
                 oVars, wVars, bVars, xVars, histVars, nextSid, session_id, result, passed, jpc, jsid, jread>>

call_agent ==
  \/ CallAgentLoad \/ CallAgentRun \/ CallAgentRerun \/ CallAgentExtract
  \/ CallAgentWrite

\* _spawn_deepwiki_enrichment: session_id = _load_enrichment_session_id()
EnrichLoad ==
  /\ jpc = "idle"
  /\ jread' = session_file
  /\ jpc' = "run"
  /\ UNCHANGED <<nextSer, fsVars, envVars, chanVars, hVars, cVars, eVars, pVars,
                 oVars, wVars, bVars, xVars, histVars, session_file, nextSid, apc, session_id, result, passed, jsid>>

\* _monitor_enrichment_job: the agent has run in the session loaded or in
\* a new one; a job without a sessionID on its stdout, or one that failed,
\* saves nothing.
EnrichRun ==
  /\ jpc = "run"
  /\ \E r \in AgentResults(LoadSessionId(jread)) :
       /\ Created(LoadSessionId(jread), r)
       /\ jsid' = r.sessionID
       /\ jpc' = IF r.sessionID # NoSid THEN "open" ELSE "idle"
  /\ UNCHANGED <<nextSer, fsVars, envVars, chanVars, hVars, cVars, eVars, pVars,
                 oVars, wVars, bVars, xVars, histVars, session_file, apc, session_id, result, passed, jread>>

\* _save_enrichment_session_id: session_file.write_text opens the file
\* for writing, which truncates it ...
EnrichOpen ==
  /\ jpc = "open"
  /\ session_file' = EmptyFile
  /\ jpc' = "write"
  /\ UNCHANGED <<nextSer, fsVars, envVars, chanVars, hVars, cVars, eVars, pVars,
                 oVars, wVars, bVars, xVars, histVars, nextSid, apc, session_id, result, passed, jsid, jread>>

\* ... and writes the JSON object.
EnrichWrite ==
  /\ jpc = "write"
  /\ session_file' = SessionRecord(jsid)
  /\ jpc' = "idle"
  /\ UNCHANGED <<nextSer, fsVars, envVars, chanVars, hVars, cVars, eVars, pVars,
                 oVars, wVars, bVars, xVars, histVars, nextSid, apc, session_id, result, passed, jsid, jread>>

enrichment == EnrichLoad \/ EnrichRun \/ EnrichOpen \/ EnrichWrite

\* ------------------------------------------ the reference index.json
\* _canonical_url: scheme and host in lower case, the path without its
\* trailing slashes.
_canonical_url(u) == [u EXCEPT !.upper = FALSE, !.slash = FALSE]

\* _find_existing_reference: the index of the last entry with the
\* canonical url of u, 0 (None) without one.
_find_existing_reference(references, u) ==
  LET S == {i \in 1..Len(references) :
              _canonical_url(references[i].url) = _canonical_url(u)}
  IN IF S = {} THEN 0 ELSE CHOOSE i \in S : \A k \in S : k <= i

\* _validate_index: the file parses, "references" is a list and every
\* entry has the required fields.
_validate_index(data) ==
  \A i \in 1..Len(data.references) : data.references[i].ok

\* An entry that lacks a required field gets into index.json (written by
\* an earlier version of the feed processor, or by hand).
LegacyEntry ==
  /\ \E u \in FeedUrls :
       /\ _find_existing_reference(index.references, u) = 0
       /\ index' = [exists |-> TRUE,
                    references |->
                      Append(index.references,
                             [Ref(u, Len(index.references) + 1, 0, now)
                                EXCEPT !.ok = FALSE])]
  /\ UNCHANGED <<failure_count, running, heartbeat_status,
                 nextSer, fsVars, envVars, chanVars, hVars, cVars, eVars, pVars,
                 oVars, wVars, bVars, sVars, histVars, unauthorized, replies,
                 corrupted, fpc, url, note, index_data, monitors, returned>>

\* process_feed up to its await (the n-th call is given the note n):
\* _ensure_index creates a missing index
\* file and loads it; for a GitHub url with DeepWiki enabled the
\* enrichment job is spawned and its monitor task created for the
\* reference file, which is named after the slug.
FeedLoad ==
  /\ fpc = "idle"
  /\ note < MaxFeeds
  /\ \E u \in FeedUrls, started \in BOOLEAN :
       LET existing_idx == _find_existing_reference(index.references, u)
           slug == IF existing_idx # 0 THEN index.references[existing_idx].slug
                   ELSE Len(index.references) + 1
       IN /\ url' = u
          /\ note' = note + 1
          /\ index' = [index EXCEPT !.exists = TRUE]
          /\ index_data' = index'
          /\ monitors' = IF started THEN monitors \cup {slug} ELSE monitors
          /\ fpc' = IF started THEN "upsert_pending" ELSE "upsert"
          /\ returned' = NoReturn
  /\ UNCHANGED <<failure_count, running, heartbeat_status,
                 nextSer, fsVars, envVars, chanVars, hVars, cVars, eVars, pVars,
                 oVars, wVars, bVars, sVars, histVars, unauthorized, replies,
                 corrupted>>

\* A faulty upsert: the entry is always appended.
FeedAppends ==
  /\ fpc \in {"upsert", "upsert_pending"}
  /\ LET references == index_data.references
         entry == Ref(url, Len(references) + 1, note, now)
         written == [index_data EXCEPT !.references = Append(references, entry)]
     IN /\ index' = written
        /\ returned' = [slug |-> entry.slug, updated_existing |-> FALSE,
                        warning |-> FALSE]
  /\ fpc' = "idle"
  /\ UNCHANGED <<failure_count, running, heartbeat_status,
                 nextSer, fsVars, envVars, chanVars, hVars, cVars, eVars, pVars,
                 oVars, wVars, bVars, sVars, histVars, unauthorized, replies,
                 corrupted, url, note, index_data, monitors>>

\* process_feed: the entry replaces the one of the same canonical url,
\* keeping its slug and created_at, or is appended; the index is written
\* and validated; if the validation fails, the entry is taken back and
\* the index written again.
FeedUpsert ==
  /\ fpc \in {"upsert", "upsert_pending"}
  /\ LET references == index_data.references
         existing_idx == _find_existing_reference(references, url)
         analysis == IF fpc = "upsert_pending" THEN "deepwiki-pending" ELSE "none"
         entry ==
           IF existing_idx # 0
             THEN [Ref(url, references[existing_idx].slug, note, now)
                     EXCEPT !.created_at = references[existing_idx].created_at,
                            !.analysis = analysis]
             ELSE [Ref(url, Len(references) + 1, note, now)
                     EXCEPT !.analysis = analysis]
         written ==
           [index_data EXCEPT !.references =
              IF existing_idx # 0 THEN [references EXCEPT ![existing_idx] = entry]
              ELSE Append(references, entry)]
     IN /\ index' = IF _validate_index(written) THEN written ELSE index_data
        /\ returned' = [slug |-> entry.slug,
                        updated_existing |-> _validate_index(written) /\ existing_idx # 0,
                        warning |-> ~_validate_index(written)]
  /\ fpc' = "idle"
  /\ UNCHANGED <<failure_count, running, heartbeat_status,
                 nextSer, fsVars, envVars, chanVars, hVars, cVars, eVars, pVars,
                 oVars, wVars, bVars, sVars, histVars, unauthorized, replies,
                 corrupted, url, note, index_data, monitors>>

\* _monitor_enrichment_job ends and calls _update_index_analysis: without
\* an index file or an entry for the reference file it returns; otherwise
\* the first such entry's analysis is set and the index written.  The
\* monitor is a task of process_feed's event loop: it runs while
\* process_feed awaits the spawn, not between the statements after it.
_update_index_analysis ==
  /\ fpc # "upsert"
  /\ \E f \in monitors, status \in {"deepwiki-enriched", "deepwiki-not-indexed"} :
       LET S == {i \in 1..Len(index.references) : index.references[i].slug = f}
       IN /\ monitors' = monitors \ {f}
          /\ index' = IF index.exists /\ S # {}
                        THEN [index EXCEPT
                                !.references[CHOOSE i \in S : \A k \in S : i <= k].analysis
                                  = status]
                        ELSE index
  /\ UNCHANGED <<failure_count, running, heartbeat_status,
                 nextSer, fsVars, envVars, chanVars, hVars, cVars, eVars, pVars,
                 oVars, wVars, bVars, sVars, histVars, unauthorized, replies,
                 corrupted, fpc, url, note, index_data, returned>>

\* ------------------------------------------- the standby agent session
\* The agent session that handles orders by hand (the workflow of
\* tests/test_phase_c_e2e.py): it writes a response notepad, marks the
\* order acknowledged in place, and later moves the file to the archive.
StandbyRespond(o) ==
  /\ Exists(pending[o]) /\ ~pending[o].acknowledged
  /\ responses[o] # pending[o].ser
  /\ responses' = [responses EXCEPT ![o] = pending[o].ser]
  /\ respWritten' = respWritten \cup {pending[o].ser}
  /\ UNCHANGED <<nextSer, pending, claimed, archive, outbox, envVars, chanVars,
                 hVars, cVars, eVars, pVars, wVars, bVars, sVars, xVars, oVars, overwritten, announced>>

StandbyAcknowledge(o) ==
  /\ Exists(pending[o]) /\ ~pending[o].acknowledged
  /\ pending' = [pending EXCEPT ![o] = Acknowledged(pending[o], "Standby agent")]
  /\ UNCHANGED <<nextSer, claimed, archive, responses, outbox, envVars, chanVars,
                 hVars, cVars, eVars, pVars, wVars, bVars, sVars, xVars, oVars, histVars>>

StandbyArchive(o) ==
  /\ Exists(pending[o]) /\ pending[o].acknowledged
  /\ archive' = [archive EXCEPT ![o] = pending[o]]
  /\ pending' = [pending EXCEPT ![o] = NoOrder]
  /\ UNCHANGED <<nextSer, claimed, responses, outbox, envVars, chanVars,
                 hVars, cVars, eVars, pVars, wVars, bVars, sVars, xVars, oVars, histVars>>

Standby == \E o \in Ids : StandbyRespond(o) \/ StandbyAcknowledge(o) \/ StandbyArchive(o)

\* ------------------------- TelegramChannel.poll_order_acknowledgments
\* A round starts after the sleep: list(self.pending_orders.items()) is a
\* snapshot, completed is empty.
PollStart ==
  /\ ppc = "sleep"
  /\ pscan' = pending_orders
  /\ pdone' = {}
  /\ ppc' = "next"
  /\ UNCHANGED <<nextSer, oVars, wVars, bVars, sVars, xVars, fsVars, envVars, chanVars, hVars, cVars, eVars,
                 pfile, pser, histVars>>

\* The next tracked file: a missing file is completed, an acknowledged
\* order is announced (with the matching or the latest response notepad,
\* or with "No response notepad yet"), any other stays tracked.  After the
\* last one the completed files are popped from pending_orders.
PollNext ==
  /\ ppc = "next"
  /\ IF pscan = {}
       THEN /\ pending_orders' = pending_orders \ pdone
            /\ ppc' = "sleep"
            /\ UNCHANGED <<pscan, pdone, pfile, pser>>
       ELSE LET o == FirstOf(pscan) IN
            /\ pscan' = pscan \ {o}
            /\ pending_orders' = pending_orders
            /\ IF ~Exists(pending[o])
                 THEN pdone' = pdone \cup {o} /\ ppc' = "next"
                      /\ UNCHANGED <<pfile, pser>>
                 ELSE IF pending[o].acknowledged
                   THEN /\ pfile' = o /\ pser' = pending[o].ser /\ pdone' = pdone
                        /\ ppc' = IF \E r \in Ids : responses[r] # 0
                                    THEN "header" ELSE "no_response"
                   ELSE UNCHANGED <<pdone, pfile, pser>> /\ ppc' = "next"
  /\ UNCHANGED <<nextSer, oVars, wVars, bVars, sVars, xVars, fsVars, envVars, inbound, outbound, hVars, cVars, eVars,
                 histVars>>

\* The first send_message: "Order Acknowledged" with the order text (and,
\* for a response over 1000 characters, the summary of the response).  A
\* send that raises is logged and the order stays tracked.
PollSendHeader ==
  /\ ppc = "header"
  /\ \/ /\ announced' = [announced EXCEPT ![pser] = @ + 1]
        /\ ppc' = "body"
        /\ faults' = faults
     \/ /\ faults < MaxFaults
        /\ faults' = faults + 1
        /\ ppc' = "next"
        /\ announced' = announced
  /\ UNCHANGED <<nextSer, oVars, wVars, bVars, sVars, xVars, fsVars, now, heartbeatFresh, binaryPresent, chanVars,
                 hVars, cVars, eVars, pscan, pdone, pfile, pser,
                 overwritten, respWritten>>

\* The second send (the compact response, or send_document with the full
\* response); only after it is the order completed.
PollSendBody ==
  /\ ppc = "body"
  /\ \/ /\ pdone' = pdone \cup {pfile}
        /\ faults' = faults
     \/ /\ faults < MaxFaults
        /\ faults' = faults + 1
        /\ pdone' = pdone
  /\ ppc' = "next"
  /\ UNCHANGED <<nextSer, oVars, wVars, bVars, sVars, xVars, fsVars, now, heartbeatFresh, binaryPresent, chanVars,
                 hVars, cVars, eVars, pscan, pfile, pser, histVars>>

\* No response notepad at all: one message, then the order is completed.
PollSendNoResponse ==
  /\ ppc = "no_response"
  /\ \/ /\ pdone' = pdone \cup {pfile}
        /\ faults' = faults
     \/ /\ faults < MaxFaults
        /\ faults' = faults + 1
        /\ pdone' = pdone
  /\ ppc' = "next"
  /\ UNCHANGED <<nextSer, oVars, wVars, bVars, sVars, xVars, fsVars, now, heartbeatFresh, binaryPresent, chanVars,
                 hVars, cVars, eVars, pscan, pfile, pser, histVars>>

poll_order_acknowledgments ==
  PollStart \/ PollNext \/ PollSendHeader \/ PollSendBody \/ PollSendNoResponse

\* --------------------------------------------------------- specification
\* ------------------------------- TelegramChannel.poll_outbox_messages
\* File names as Python compares them: sequences of character codes.
HeartbeatPrefix == <<104, 101, 97, 114, 116, 98, 101, 97, 116, 45>>
HermesPrefix == <<104, 101, 114, 109, 101, 115, 45>>
ProcessingPrefix == <<112, 114, 111, 99, 101, 115, 115, 105, 110, 103, 45>>
SessionKeyName == <<116, 101, 108, 101, 103, 114, 97, 109, 58, 49>>
StampPrefix == <<50, 48, 50, 54, 48, 49, 48, 49, 45, 48, 48, 48, 48>>
JsonSuffix == <<46, 106, 115, 111, 110>>
Dash == <<45>>

\* str(n) of a natural number.
RECURSIVE Decimal(_)
Decimal(n) ==
  IF n < 10 THEN <<48 + n>> ELSE Decimal(n \div 10) \o <<48 + (n % 10)>>

\* strftime("%Y%m%d-%H%M%S") of clock second t: the seconds have two
\* digits, the rest of the stamp is the same for all seconds of the model.
StampName(t) == StampPrefix \o <<48 + (t \div 10), 48 + (t % 10)>>

\* An order id in a file name: the session key or the stamp.
IdName(o) == IF o = SessionKey THEN SessionKeyName ELSE StampName(o)

\* The name of an outbox file.
FileName(f) ==
  IF f[1] = "heartbeat"
    THEN HeartbeatPrefix \o SessionKeyName \o Dash \o Decimal(f[2]) \o JsonSuffix
  ELSE IF f[1] = "hermes" THEN HermesPrefix \o IdName(f[2]) \o JsonSuffix
  ELSE IF f[1] = "processing" THEN ProcessingPrefix \o IdName(f[2]) \o JsonSuffix
  ELSE StampName(f[2]) \o JsonSuffix

\* Python's str <: lexicographic on the character codes.
RECURSIVE LexLess(_, _)
LexLess(a, b) ==
  IF a = <<>> THEN b # <<>>
  ELSE IF b = <<>> THEN FALSE
  ELSE IF Head(a) # Head(b) THEN Head(a) < Head(b)
  ELSE LexLess(Tail(a), Tail(b))

\* sorted(...) of a set of outbox files.
RECURSIVE sorted(_)
sorted(S) ==
  IF S = {} THEN <<>>
  ELSE LET m == CHOOSE x \in S :
                  \A y \in S \ {x} : LexLess(FileName(x), FileName(y))
       IN  <<m>> \o sorted(S \ {m})

\* glob("*.json") of the outbox directory.
OutboxFiles ==
  {f \in OutboxNames : outbox[f].severity # "none"}
    \cup {<<"heartbeat", h.at>> : h \in hbfiles}

FileExists(f) ==
  IF f[1] = "heartbeat" THEN \E h \in hbfiles : h.at = f[2]
  ELSE outbox[f].severity # "none"

\* json.load of an outbox file that exists.
Content(f) ==
  IF f[1] = "heartbeat" THEN CHOOSE h \in hbfiles : h.at = f[2]
  ELSE outbox[f]

\* One pass starts after the sleep: the sorted glob is a snapshot.
OutboxScan ==
  /\ opc = "sleep"
  /\ oscan' = sorted(OutboxFiles)
  /\ opc' = "next"
  /\ UNCHANGED <<nextSer, fsVars, envVars, chanVars, hVars, cVars, eVars, pVars, wVars, bVars, sVars, xVars,
                 ofile, odata, ousers, delivered, undelivered, histVars>>

\* The next file of the snapshot is opened and loaded.  A file that has
\* been removed since the glob raises (logged by the except branch), a file
\* with sent = true is skipped; otherwise the text is built and the loop
\* over self.authorized starts.
OutboxNext ==
  /\ opc = "next"
  /\ IF oscan = <<>>
       THEN /\ opc' = "sleep"
            /\ UNCHANGED <<oscan, ofile, odata, ousers>>
       ELSE /\ oscan' = Tail(oscan)
            /\ IF ~FileExists(Head(oscan)) \/ Content(Head(oscan)).sent
                 THEN /\ opc' = "next"
                      /\ UNCHANGED <<ofile, odata, ousers>>
                 ELSE /\ ofile' = Head(oscan)
                      /\ odata' = Content(Head(oscan))
                      /\ ousers' = Users
                      /\ opc' = "send"
  /\ UNCHANGED <<nextSer, fsVars, envVars, chanVars, hVars, cVars, eVars, pVars, wVars, bVars, sVars, xVars,
                 delivered, undelivered, histVars>>

\* msg_data["sent"] = True, the file is rewritten with the data read.
MarkSent ==
  IF ofile[1] = "heartbeat"
    THEN /\ hbfiles' = {h \in hbfiles : h.at # ofile[2]}
                         \cup {[odata EXCEPT !.sent = TRUE]}
         /\ outbox' = outbox
    ELSE /\ outbox' = [outbox EXCEPT ![ofile] = [odata EXCEPT !.sent = TRUE]]
         /\ hbfiles' = hbfiles

\* The text (one chunk) is sent to the next authorized user, whatever the
\* notification's chat_id: send_message with parse_mode HTML, then without;
\* if both attempts raise, the error is logged.  After the last user the
\* file is marked sent.
OutboxSend ==
  /\ opc = "send"
  /\ LET u == CHOOSE v \in ousers : \A w \in ousers : v <= w
     IN  /\ \/ /\ delivered' = delivered \cup
                    {[file |-> ofile, user |-> u, chat_id |-> odata.chat_id]}
               /\ UNCHANGED <<undelivered, faults>>
            \/ /\ faults < MaxFaults
               /\ faults' = faults + 1
               /\ undelivered' = undelivered \cup {<<ofile, u>>}
               /\ delivered' = delivered
         /\ ousers' = ousers \ {u}
         /\ IF ousers = {u}
              THEN MarkSent /\ opc' = "next"
              ELSE opc' = "send" /\ UNCHANGED <<outbox, hbfiles>>
  /\ UNCHANGED <<nextSer, pending, claimed, archive, responses, now,
                 heartbeatFresh, binaryPresent, chanVars, hVars, cVars, epc,
                 eser, eres, etext, elapsed, last_heartbeat, beats, pVars, wVars, bVars, sVars, xVars,
                 oscan, ofile, odata, histVars>>

poll_outbox_messages == OutboxScan \/ OutboxNext \/ OutboxSend

\* ------------------------------------------ WebChannel (one web user)
\* handle_websocket after prepare and a valid token: old_ws is looked up.
\* Without an open old socket the new one is indexed at once and the
\* welcome is sent; otherwise the "Session replaced" frame is sent first.
WsConnect(k) ==
  /\ wpc[k] = "new"
  /\ IF connections # NoSock /\ ~wclosed[connections]
       THEN /\ old_ws' = [old_ws EXCEPT ![k] = connections]
            /\ wpc' = [wpc EXCEPT ![k] = "replace"]
            /\ connections' = connections
       ELSE /\ connections' = k
            /\ wpc' = [wpc EXCEPT ![k] = "welcome"]
            /\ old_ws' = old_ws
  /\ UNCHANGED <<nextSer, fsVars, envVars, chanVars, hVars, cVars, eVars, pVars,
                 oVars, bVars, sVars, xVars, wclosed, wgot, wlost, histVars>>

\* await old_ws.send_json({"type": "system", "content": "Session replaced
\* by new connection"}).  On a socket closed in the meantime the send
\* raises; nothing catches it, the handler ends and its socket is closed.
WsReplaceSend(k) ==
  /\ wpc[k] = "replace"
  /\ IF wclosed[old_ws[k]]
       THEN /\ wpc' = [wpc EXCEPT ![k] = "done"]
            /\ wclosed' = [wclosed EXCEPT ![k] = TRUE]
            /\ wgot' = wgot
       ELSE /\ wgot' = [wgot EXCEPT ![old_ws[k]] = @ \cup {"replaced"}]
            /\ wpc' = [wpc EXCEPT ![k] = "close"]
            /\ wclosed' = wclosed
  /\ UNCHANGED <<nextSer, fsVars, envVars, chanVars, hVars, cVars, eVars, pVars,
                 oVars, bVars, sVars, xVars, connections, old_ws, wlost, histVars>>

\* await old_ws.close()
WsReplaceClose(k) ==
  /\ wpc[k] = "close"
  /\ wclosed' = [wclosed EXCEPT ![old_ws[k]] = TRUE]
  /\ wpc' = [wpc EXCEPT ![k] = "index"]
  /\ UNCHANGED <<nextSer, fsVars, envVars, chanVars, hVars, cVars, eVars, pVars,
                 oVars, bVars, sVars, xVars, connections, old_ws, wgot, wlost, histVars>>

\* self.connections[chat_id] = ws
WsIndex(k) ==
  /\ wpc[k] = "index"
  /\ connections' = k
  /\ wpc' = [wpc EXCEPT ![k] = "welcome"]
  /\ UNCHANGED <<nextSer, fsVars, envVars, chanVars, hVars, cVars, eVars, pVars,
                 oVars, bVars, sVars, xVars, old_ws, wclosed, wgot, wlost, histVars>>

\* await ws.send_json(welcome), before the try block.  On a socket that a
\* newer connection has closed, the send either raises (the handler ends
\* without its finally) or had been handed to the transport already.
WsWelcome(k) ==
  /\ wpc[k] = "welcome"
  /\ \/ /\ ~wclosed[k]
        /\ wgot' = [wgot EXCEPT ![k] = @ \cup {"welcome"}]
        /\ wpc' = [wpc EXCEPT ![k] = "loop"]
     \/ /\ wclosed[k]
        /\ wpc' = [wpc EXCEPT ![k] = "loop"]
        /\ wgot' = wgot
     \/ /\ wclosed[k]
        /\ wpc' = [wpc EXCEPT ![k] = "done"]
        /\ wgot' = wgot
  /\ UNCHANGED <<nextSer, fsVars, envVars, chanVars, hVars, cVars, eVars, pVars,
                 oVars, bVars, sVars, xVars, connections, old_ws, wclosed, wlost, histVars>>

\* A text frame arrives: _handle_message is called with the keyword
\* user_id, which BaseChannel._handle_message does not take; the TypeError
\* is logged, the finally block pops the entry and the handler returns.
WsText(k) ==
  /\ wpc[k] = "loop"
  /\ ~wclosed[k]
  /\ connections' = NoSock
  /\ wclosed' = [wclosed EXCEPT ![k] = TRUE]
  /\ wpc' = [wpc EXCEPT ![k] = "done"]
  /\ UNCHANGED <<nextSer, fsVars, envVars, chanVars, hVars, cVars, eVars, pVars,
                 oVars, bVars, sVars, xVars, old_ws, wgot, wlost, histVars>>

\* The message loop ends on a closed socket; finally:
\* self.connections.pop(chat_id, None).
WsLoopExit(k) ==
  /\ wpc[k] = "loop"
  /\ wclosed[k]
  /\ connections' = NoSock
  /\ wpc' = [wpc EXCEPT ![k] = "done"]
  /\ UNCHANGED <<nextSer, fsVars, envVars, chanVars, hVars, cVars, eVars, pVars,
                 oVars, bVars, sVars, xVars, old_ws, wclosed, wgot, wlost, histVars>>

\* A faulty refusal: the socket is indexed before the token is looked at.
WsRefuseAfterIndex(k) ==
  /\ wpc[k] = "new"
  /\ connections' = k
  /\ wgot' = [wgot EXCEPT ![k] = @ \cup {"error"}]
  /\ wclosed' = [wclosed EXCEPT ![k] = TRUE]
  /\ wpc' = [wpc EXCEPT ![k] = "done"]
  /\ UNCHANGED <<nextSer, fsVars, envVars, chanVars, hVars, cVars, eVars, pVars,
                 oVars, bVars, sVars, xVars, old_ws, wlost, histVars>>

\* handle_websocket after prepare when the galaxy_token cookie is missing
\* or verify_token returns None or raises: the error frame "Unauthorized -
\* please login" is sent, the socket is closed and the handler returns.
WsRefuse(k) ==
  /\ wpc[k] = "new"
  /\ wgot' = [wgot EXCEPT ![k] = @ \cup {"error"}]
  /\ wclosed' = [wclosed EXCEPT ![k] = TRUE]
  /\ wpc' = [wpc EXCEPT ![k] = "done"]
  /\ UNCHANGED <<nextSer, fsVars, envVars, chanVars, hVars, cVars, eVars, pVars,
                 oVars, bVars, sVars, xVars, connections, old_ws, wlost,
                 histVars>>

handle_websocket(k) ==
  \/ WsRefuse(k)
  \/ WsConnect(k) \/ WsReplaceSend(k) \/ WsReplaceClose(k) \/ WsIndex(k)
  \/ WsWelcome(k) \/ WsText(k) \/ WsLoopExit(k)

\* The client closes its socket while the handler waits for a frame.
WsClientClose(k) ==
  /\ wpc[k] = "loop"
  /\ ~wclosed[k]
  /\ wclosed' = [wclosed EXCEPT ![k] = TRUE]
  /\ UNCHANGED <<nextSer, fsVars, envVars, chanVars, hVars, cVars, eVars, pVars,
                 oVars, bVars, sVars, xVars, connections, wpc, old_ws, wgot, wlost, histVars>>

\* WebChannel.send of an OutboundMessage for the web user.
WebSend ==
  /\ IF connections # NoSock /\ ~wclosed[connections]
       THEN /\ wgot' = [wgot EXCEPT ![connections] = @ \cup {"message"}]
            /\ wlost' = wlost
       ELSE /\ wlost' = TRUE
            /\ wgot' = wgot
  /\ UNCHANGED <<nextSer, fsVars, envVars, chanVars, hVars, cVars, eVars, pVars,
                 oVars, bVars, sVars, xVars, connections, wpc, old_ws, wclosed, histVars>>

Environment == Tick \/ BinaryChanges \/ HeartbeatAges
Tools == \E c \in Callers : galaxy_execute(c) \/ galaxy_acknowledge(c)

\* The orders directory shared by the Telegram channel's /order command,
\* the Hermes daemon and the MCP tools.
Next == cmd_order \/ Environment \/ HermesExecutes \/ Tools

Spec == Init /\ [][Next]_vars

\* The gateway: channels publish to the bus, the executor loop bridges
\* each message to the Hermes daemon through the orders directory.
NextGateway == OnText \/ Executor \/ HermesExecutes \/ BinaryChanges

SpecGateway == Init /\ [][NextGateway]_vars

\* The gateway with its executor task always scheduled again: the event
\* loop resumes execute after every sleep, and no file operation blocks.
SpecGatewayFair == SpecGateway /\ WF_vars(Executor)

\* run_gateway after the shutdown signal: shutdown_event.wait() returns and
\* the finally block calls task.cancel() on the executor_loop and the
\* outbound_dispatcher tasks, which are not awaited.  A task is cancelled
\* at the await it is suspended in: the executor at consume_inbound or at
\* the asyncio.sleep of execute's wait loop, where the CancelledError
\* passes the "except Exception" branches of execute and executor_loop and
\* no cleanup runs; the dispatcher at consume_outbound or at channel.send.
GatewayShutdown ==
  /\ epc \in {"consume", "sleep"}
  /\ epc' = "cancelled"
  /\ dpc' = "cancelled"
  /\ UNCHANGED <<nextSer, fsVars, envVars, chanVars, hVars, cVars, eser, eres,
                 etext, elapsed, last_heartbeat, hbfiles, beats, pVars, wVars,
                 nextMsg, consumed, dpos, dmsg, received, dropped, sVars, xVars,
                 oVars, histVars>>

NextShutdown == NextGateway \/ GatewayShutdown

\* The gateway and the Hermes daemon with the shutdown signal of the gateway.
SpecShutdown == Init /\ [][NextShutdown]_vars

\* The Telegram channel with its acknowledgment poller, the daemon and a
\* standby agent session on one orders directory.
NextAck == cmd_order \/ Tick \/ HermesExecutes \/ Standby \/ poll_order_acknowledgments

SpecAck == Init /\ [][NextAck]_vars

\* The gateway with the Telegram channel's outbox poller while no Hermes
\* daemon runs: no response file appears, execute waits until its timeout.
NextOutbox ==
  \/ OnText
  \/ ExecutorWriteOrder \/ ExecutorProcessingNotif \/ ExecutorPoll
  \/ ExecutorSleep \/ ExecutorTimeout \/ ExecutorLoop
  \/ poll_outbox_messages

SpecOutbox == Init /\ [][NextOutbox]_vars

\* The /order command, the Hermes daemon and the outbox poller that relays
\* the daemon's notifications.
NextNotify == cmd_order \/ Tick \/ HermesExecutes \/ poll_outbox_messages

SpecNotify == Init /\ [][NextNotify]_vars

\* The web channel: the connections of one user, their closing by the
\* client, and the dispatcher's sends to the user.
NextWeb ==
  \/ \E k \in Socks : handle_websocket(k) \/ WsClientClose(k)
  \/ WebSend

SpecWeb == Init /\ [][NextWeb]_vars

\* The message bus between a Telegram channel whose default machine is
\* remote, the executor loop with the local Hermes daemon, and the outbound
\* dispatcher.
NextBus == OnTextRemote \/ Executor \/ HermesExecutes \/ outbound_dispatcher

SpecBus == Init /\ [][NextBus]_vars

\* The Hermes daemon's call_agent and the gateway's enrichment job on the
\* one session file.
NextSession == call_agent \/ enrichment

SpecSession == Init /\ [][NextSession]_vars

\* The Telegram channel's handlers, for authorized senders and strangers,
\* and the Hermes daemon.
NextIntake ==
  \/ OnText \/ cmd_order \/ handle_text \/ UnparseableOrder
  \/ HermesExecutes \/ HermesRequeue
  \/ \E u \in Strangers, h \in Handlers : Refuse(u, h)

SpecIntake == Init /\ [][NextIntake]_vars

NextDaemon == handle_text \/ Tick \/ HermesExecutes \/ HermesRequeue

\* The Hermes daemon under fair scheduling: main's poll loop goes on from
\* every step it can take, and every agent call returns.
SpecDaemonFair ==
  Init /\ [][NextDaemon]_vars /\ WF_vars(HermesExecutes \/ HermesRequeue)

NextStop ==
  handle_text \/ Tick \/ HermesExecutes \/ HermesRequeue \/ shutdown \/ HermesStop

\* The daemon with the shutdown signal, under the same fair scheduling: the
\* process keeps running until main returns.
SpecStopFair ==
  Init /\ [][NextStop]_vars
       /\ WF_vars(HermesExecutes \/ HermesRequeue \/ HermesStop)

\* The feed processor and its enrichment monitors on index.json.
NextIndex == LegacyEntry \/ FeedLoad \/ FeedUpsert \/ _update_index_analysis

SpecIndex == Init /\ [][NextIndex]_vars

\* process_feed calls one after another, with the clock advancing.
NextFeed == Tick \/ FeedLoad \/ FeedUpsert

SpecFeed == Init /\ [][NextFeed]_vars

\* ================================================================ claims
Dirs == {pending, claimed, archive}

\* The daemon / a tool call holds the claim on order file o: its rename to
\* `.processing` succeeded and it has neither archived nor released it.
HermesHolds(o) ==
  /\ hfile = o
  /\ hpc \in {"read", "requeue", "agent", "write_response", "archive", "unlink"}
CallerHolds(c, o) ==
  /\ cfile[c] = o
  /\ cpc[c] \in {"read", "release", "run", "write_response", "archive", "unlink"}

\* C1: every order id is in at most one of pending, claimed, archived, in
\* every reachable state (the states inside archive_order, galaxy_execute
\* and galaxy_acknowledge included).
C1_AtMostOnePlace ==
  \A o \in Ids :
    Cardinality({d \in {"pending", "claimed", "archive"} :
                   Exists((CASE d = "pending" -> pending[o]
                             [] d = "claimed" -> claimed[o]
                             [] OTHER -> archive[o]))}) <= 1

\* C2: while one consumer holds the claim on an order id, no other
\* consumer holds it too, and no step of anybody else replaces, removes or
\* archives that order.
C2_ExclusiveOwnership ==
  [][ /\ \A o \in Ids : \A c \in Callers : ~(HermesHolds(o) /\ CallerHolds(c, o))
      /\ \A o \in Ids :
           (HermesHolds(o) /\ hpc' = hpc) =>
             (claimed'[o] = claimed[o] /\ archive'[o] = archive[o])
      /\ \A o \in Ids : \A c \in Callers :
           (CallerHolds(c, o) /\ cpc'[c] = cpc[c]) =>
             (claimed'[o] = claimed[o] /\ archive'[o] = archive[o]) ]_vars

\* C3: a consumer whose claim rename finds the pending file gone returns
\* (the daemon to its poll loop, galaxy_execute with the "already claimed"
\* error) without calling the agent, and its step changes no order, claim,
\* archive, response or outbox file.
C3_FailedClaimChangesNothing ==
  [][ /\ (hpc = "claim" /\ hpc' # hpc /\ ~Exists(pending[hfile])) =>
           (hpc' = "next" /\ UNCHANGED fsVars)
      /\ \A c \in Callers :
           (cpc[c] = "claim" /\ cpc'[c] # cpc[c] /\ ~Exists(pending[cfile[c]])) =>
             (cpc'[c] = "idle" /\ cres'[c] = "already_claimed" /\ UNCHANGED fsVars)
    ]_vars

\* C3's case: galaxy_execute has returned "already claimed" while the
\* daemon holds the claim on that order.
C3_Witness ==
  \E c \in Callers :
    /\ cres[c] = "already_claimed" /\ cpc[c] = "idle"
    /\ HermesHolds(cfile[c]) /\ Exists(claimed[cfile[c]])

\* C4: creating an order never replaces an existing pending order.
C4_NoOrderOverwritten == overwritten = {}

\* C5: an order record acknowledged by process_order, galaxy_execute or
\* galaxy_acknowledge is the archive entry of its id, and for no order is a
\* response announced to the user more than once, counting the daemon's
\* outbox notification and the acknowledgment poller's delivery.
C5_AcknowledgedAnnouncedOnce ==
  /\ \A o \in Ids : \A d \in {pending, claimed} :
       (d[o].acknowledged /\ d[o].acknowledged_by # "Standby agent") =>
         archive[o] = d[o]
  /\ \A n \in Sers : announced[n] <= 1

\* C6: an archive entry, once written, is never overwritten, modified or
\* deleted.
C6_ArchiveAppendOnly ==
  [][\A o \in Ids : Exists(archive[o]) => archive'[o] = archive[o]]_vars

\* C7 as claimed: every acknowledged order record has acknowledged_at and a
\* response file was written for that order before.
C7_AcknowledgedHasResponse ==
  \A o \in Ids : \A d \in Dirs :
    d[o].acknowledged => (d[o].acknowledged_at /\ d[o].ser \in respWritten)

\* C7 amended: every acknowledged record has acknowledged_at; a response
\* file was written before for the records acknowledged by process_order
\* and galaxy_execute (galaxy_acknowledge archives without a response).
C7_AcknowledgedByExecutionHasResponse ==
  \A o \in Ids : \A d \in Dirs :
    d[o].acknowledged =>
      /\ d[o].acknowledged_at
      /\ d[o].acknowledged_by \in {"Hermes", "Galaxy MCP Server"} =>
           d[o].ser \in respWritten

\* C7's case: the archive holds an order acknowledged by the daemon and one
\* acknowledged by galaxy_acknowledge.
C7_Witness ==
  /\ \E o \in Ids : archive[o].acknowledged_by = "Hermes"
  /\ \E o \in Ids : archive[o].acknowledged_by = "Galaxy MCP Server (manual)"

\* C8: when call_agent cannot resolve the binary the daemon produces no
\* response file, archive entry or success notification for the order, and
\* process_order ends with the order back at its pending path and a
\* "warning" notification in the outbox.
C8_UnavailableRequeues ==
  /\ [](hresp = "unavailable" =>
          /\ responses[hid] # horder.ser
          /\ archive[hid].ser # horder.ser
          /\ outbox[<<"hermes", hid>>].severity # "success")
  /\ [][(hresp = "unavailable" /\ hpc' = "next" /\ hpc # "next") =>
          /\ pending'[hfile].ser = horder.ser
          /\ ~Exists(claimed'[hfile])
          /\ outbox'[<<"hermes", hid>>].severity = "warning"]_vars

\* C9: a galaxy_execute call that finds no agent binary writes nothing
\* when it decides so, and returns "unavailable" by renaming the claim back:
\* the order id is at its pending path again, unacknowledged, there is no
\* `.processing` file for it, and the call has added no archive entry, no
\* response file and no notification; "unavailable" is returned on no
\* other path.
C9_UnavailableRequeues ==
  [][\A c \in Callers :
       /\ (cpc[c] = "read" /\ cpc'[c] = "release" /\ cres'[c] = "unavailable") =>
            UNCHANGED fsVars
       /\ (cpc[c] = "release" /\ cpc'[c] = "idle" /\ cres'[c] = "unavailable") =>
            /\ Exists(pending'[cfile[c]])
            /\ pending'[cfile[c]] = claimed[cfile[c]]
            /\ ~pending'[cfile[c]].acknowledged
            /\ ~Exists(claimed'[cfile[c]])
            /\ UNCHANGED <<archive, responses, outbox>>
       /\ (cres'[c] = "unavailable" /\ cres[c] # "unavailable") =>
            (cpc[c] = "read" /\ ~binaryPresent) ]_vars

\* C9's case: the call has returned "unavailable" and the order can be
\* claimed again.
C9_Witness ==
  \E c \in Callers :
    /\ cres[c] = "unavailable" /\ cpc[c] = "idle"
    /\ Exists(pending[cfile[c]]) /\ ~Exists(claimed[cfile[c]])
    /\ ~Exists(archive[cfile[c]]) /\ responses[cfile[c]] = 0

C11_NoLivenessFilesAfterReturn ==
  epc = "returned" =>
    /\ ~Exists(outbox[<<"processing", SessionKey>>])
    /\ hbfiles = {}

\* C12 as claimed: execute returns, and a return for an order for which no
\* response file was ever written is the "Timeout after" failure, reached
\* before the timeout plus one poll interval has elapsed.
C12_NoResponseMeansTimeout ==
  (epc = "returned" /\ eser \notin respWritten) =>
    (eres = "timeout" /\ elapsed < Timeout + PollInterval)

\* C12 amended: execute always returns; while it waits, less than the
\* timeout plus one poll interval has elapsed; it returns success only with
\* the response it read at a poll, "Timeout after" only once the timeout has
\* elapsed, and otherwise "Execution error", which it returns only when a
\* write of the order or of the processing notification raised or when the
\* response file vanished between exists() and read_text().
C12_ExecuteTerminates ==
  /\ [](epc \in {"processing", "wait", "sleep", "read", "returned"} =>
          elapsed < Timeout + PollInterval)
  /\ []((epc = "returned" /\ eres = "success") => etext # 0)
  /\ []((epc = "returned" /\ eres = "timeout") => elapsed >= Timeout)
  /\ [][(epc' = "returned" /\ epc # "returned") =>
          /\ eres' \in {"success", "timeout", "error"}
          /\ eres' = "error" =>
               \/ faults' = faults + 1
               \/ epc = "read" /\ responses[SessionKey] = 0
          /\ (eres' = "success") = (epc = "read" /\ responses[SessionKey] # 0)]_vars
  /\ (epc = "processing") ~> (epc = "returned")

\* C12's case: execute has returned the timeout for an order that never
\* got a response.
C12_Witness ==
  /\ epc = "returned" /\ eres = "timeout"
  /\ eser # 0 /\ eser \notin respWritten
  /\ elapsed = Timeout

\* C13: when executor_loop is done with a message, either an
\* OutboundMessage for its chat has been published or the outbox holds a
\* notification that reports the failure of that order.
C13_ChatGetsSomething ==
  [][(epc = "returned" /\ epc' = "consume") =>
       \/ Len(outbound') = Len(outbound) + 1
       \/ \E f \in OutboxNames :
            /\ outbox'[f].severity \in {"warning", "error", "critical"}
            /\ outbox'[f].ser = eser]_vars

BeatsDue(e) == e \div HEARTBEAT_INTERVAL

C17_SentNeverReverts ==
  [][/\ \A f \in OutboxNames :
          (outbox[f].severity # "none" /\ outbox[f].sent) =>
            (outbox'[f].severity = "none" \/ outbox'[f].sent)
     /\ \A h \in hbfiles : \A g \in hbfiles' :
          (h.sent /\ g.at = h.at) => g.sent]_vars

\* C18: when the poller marks a file sent, no send of that file has
\* failed: every authorized user has been sent the notification.
C18_SentOnlyIfDelivered ==
  [][(opc = "send" /\ opc' = "next") =>
       \A u \in Users : <<ofile, u>> \notin undelivered']_vars

\* C19: a notification that carries a chat_id is sent to that chat only.
C19_ChatIdRoutesToChat ==
  \A d \in delivered : d.chat_id # NoChat => d.user = d.chat_id

\* Seconds since the start of execute at which execute wrote a liveness
\* notification: the processing notification before the wait, the
\* heartbeat at the elapsed second of its name.
CreatedAt(f) == IF f[1] = "processing" THEN 0 ELSE f[2]

\* C20: when the poller takes a file of its scan for delivery, no unsent
\* file still to come in the same scan was created earlier.
C20_DeliveredInCreationOrder ==
  [][(opc = "next" /\ opc' = "send") =>
       \A i \in 1..Len(oscan') :
         (FileExists(oscan'[i]) /\ ~Content(oscan'[i]).sent) =>
           CreatedAt(ofile') <= CreatedAt(oscan'[i])]_vars

\* C16: a socket that has replaced an open socket of its user (the old
\* socket got the "Session replaced" frame and was closed) is, from its
\* indexing until it is closed, the entry of connections for the user.
C16_ReplacingSocketIsRouted ==
  \A k \in Socks :
    (wpc[k] \in {"welcome", "loop"} /\ ~wclosed[k] /\ old_ws[k] # NoSock) =>
      /\ "replaced" \in wgot[old_ws[k]]
      /\ wclosed[old_ws[k]]
      /\ connections = k

\* C21: when the ack poller has delivered the response of an acknowledged
\* order (header and body sent, the order completed), the order's response
\* file galaxy-order-response-<id>.md no longer exists.
C21_DeliveredResponseIsDeleted ==
  [][(ppc = "body" /\ pdone' # pdone) => responses'[pfile] = 0]_vars

\* C22: the executor loop takes a message from the inbound queue only
\* while no execute is running, it takes the head of the queue, the
\* messages are consumed in the order of their publication (their
\* numbers), and the loop awaits the next message only after execute has
\* returned.
C22_OneOrderInFlight ==
  /\ [](\A i \in 1..Len(consumed) : consumed[i] = i)
  /\ [](\A i \in 1..Len(inbound) : inbound[i].msg = Len(consumed) + i)
  /\ [][consumed' # consumed =>
          /\ epc = "consume" /\ epc' \in {"processing", "returned"}
          /\ inbound # <<>> /\ inbound' = Tail(inbound)
          /\ consumed' = Append(consumed, Head(inbound).msg)]_vars
  /\ [][(epc # "consume" /\ epc' = "consume") => epc = "returned"]_vars
  /\ [][(epc # "consume" /\ epc' # "consume") => consumed' = consumed]_vars

\* C22's case: two messages were queued together and both have been
\* executed, the second after the first had returned.
C22_Witness ==
  /\ consumed = <<1, 2>>
  /\ epc = "returned" /\ eres = "success" /\ eser = 2
  /\ Len(outbound) = 1

\* The OutboundMessages the dispatcher is done with.
Dispatched == SubSeq(outbound, 1, IF dpc = "send" THEN dpos - 1 ELSE dpos)
Delivered(m) == m.for \notin dropped

C24_ReaderSeesCompleteRecord == jread.state \in {"absent", "complete"}

\* C25: when call_agent returns after the agent has rejected the session
\* id loaded, that id is not the persisted session id.
C25_RejectedIdIsReset ==
  [][(apc # "idle" /\ apc' = "idle" /\ (apc = "rerun" \/ Len(passed) = 2)) =>
       session_file' # SessionRecord(session_id)]_vars

\* C26: call_agent runs the agent at most twice; the second run follows a
\* first run that was passed the session id loaded, exited non-zero and
\* reported an invalid, not found or expired session, and it is passed no
\* session id.
C26_AtMostOneRetry ==
  /\ [](Len(passed) <= 2)
  /\ [](apc \in {"rerun", "extract", "write"} => passed # <<>>)
  /\ [](passed # <<>> => passed[1] = session_id)
  /\ [][Len(passed') = 2 /\ Len(passed) = 1 =>
          /\ session_id # NoSid
          /\ result.returncode # 0
          /\ InvalidSession(result)
          /\ passed'[2] = NoSid]_vars
  /\ [][Len(passed') > Len(passed) => Len(passed') = Len(passed) + 1]_vars

\* C26's case: a second run has been made.
C26_Witness ==
  /\ Len(passed) = 2 /\ passed[1] # NoSid /\ passed[2] = NoSid
  /\ apc = "extract"

\* C27: handling an update of a sender who is not on the allow-list writes
\* no order file, tracks no order, publishes nothing to the bus and changes
\* no other state; the only reply is /status's, to the sender, carrying
\* the sender's user id.
C27_UnauthorizedChangesNothing ==
  /\ [][unauthorized' # unauthorized =>
          LET n == Len(unauthorized')
              m == unauthorized'[n] IN
          /\ UNCHANGED <<failure_count, running, heartbeat_status,
                 nextSer, fsVars, envVars, chanVars, hVars, cVars, eVars,
                         pVars, oVars, wVars, bVars, sVars, histVars, corrupted,
                         index, fpc, url, index_data, monitors, note, returned>>
          /\ replies' = IF m.handler = "status"
                          THEN replies \cup {[to |-> m.from, user_id |-> m.from,
                                              update |-> n]}
                          ELSE replies]_vars
  /\ [][replies' # replies => unauthorized' # unauthorized]_vars

\* C27's case: a stranger's text and a stranger's /status have been handled
\* while an authorized sender's order is tracked.
C27_Witness ==
  /\ Len(unauthorized) = 2
  /\ unauthorized[1].handler = "text" /\ unauthorized[2].handler = "status"
  /\ Cardinality(replies) = 1
  /\ pending_orders # {}

\* C28: no order file in the orders directory has an empty payload (no
\* modelled order carries media).
C28_NoEmptyOrderWritten == \A o \in Ids : pending[o].payload # "blank"

\* C29: the daemon's poll loop renames a pending order file that is not
\* JSON into the corrupted directory when it meets it, and no step of the
\* daemon does anything else to such a file: it is never claimed,
\* archived, answered or deleted.
C29_CorruptedOrderIsQuarantined ==
  /\ [](\A o \in Ids : ~Corrupt(claimed[o]) /\ ~Corrupt(archive[o]))
  /\ [](\A o \in Ids : Corrupt(corrupted[o]) => corrupted[o].ser \notin respWritten)
  /\ [](\A o \in Ids : Exists(corrupted[o]) => Corrupt(corrupted[o]))
  /\ [][hVars' # hVars =>
          \A o \in Ids :
            Corrupt(pending[o]) =>
              \/ pending'[o] = pending[o] /\ corrupted'[o] = corrupted[o]
              \/ pending'[o] = NoOrder /\ corrupted'[o] = pending[o]]_vars
  /\ [][(hpc = "next" /\ hscan' # hscan) =>
          LET o == FirstOf(hscan) IN
          Corrupt(pending[o]) =>
            pending'[o] = NoOrder /\ corrupted'[o] = pending[o]]_vars

\* C30: a write of index.json by process_feed or _update_index_analysis
\* leaves a file that passes _validate_index, or leaves the content the
\* file had before the write.
C30_IndexValidOrRestored ==
  [][(fpc' # fpc \/ monitors' # monitors) =>
       (_validate_index(index') \/ index' = index)]_vars

\* C31: with process_feed calls run one after another the index has at
\* most one entry per canonical url; a call for a url that is present
\* keeps the number of entries and the entry's slug (hence its file) and
\* created_at, sets updated_at and the note, and returns the same slug
\* with updated_existing = true.
C31_OneEntryPerCanonicalUrl ==
  /\ [](\A i, k \in 1..Len(index.references) :
          _canonical_url(index.references[i].url) = _canonical_url(index.references[k].url)
            => i = k)
  /\ [][(fpc # "idle" /\ fpc' = "idle") =>
          LET i == _find_existing_reference(index.references, url) IN
          i # 0 =>
            /\ Len(index'.references) = Len(index.references)
            /\ index'.references[i].slug = index.references[i].slug
            /\ index'.references[i].created_at = index.references[i].created_at
            /\ index'.references[i].updated_at = now
            /\ index'.references[i].note = note
            /\ index'.references[i].url = url
            /\ returned'.slug = index.references[i].slug
            /\ returned'.updated_existing]_vars

\* C31's case: a url has been fed a second time, later and written with
\* a trailing slash, and a second url has its own entry.
C31_Witness ==
  /\ Len(index.references) = 2
  /\ index.references[1].url.slash
  /\ index.references[1].updated_at > index.references[1].created_at
  /\ index.references[1].slug = 1
  /\ returned = [slug |-> 1, updated_existing |-> TRUE, warning |-> FALSE]
  /\ fpc = "idle"

\* C35: a write of the index by process_feed keeps what the other writers
\* have written since process_feed read the index: every other entry is
\* still there with its analysis status.
C35_NoLostIndexUpdate ==
  [][(fpc # "idle" /\ fpc' = "idle") =>
       \A i \in 1..Len(index.references) :
         (index.references[i].ok /\ index.references[i].slug # returned'.slug) =>
           /\ i <= Len(index'.references)
           /\ index'.references[i] = index.references[i]]_vars


\* C32: when the gateway has shut down with an order in flight, the order
\* has reached its terminal outcome: neither its order file nor its
\* processing notification nor a heartbeat notification is left behind.
C32_InFlightOrderFinishesBeforeExit ==
  (epc = "cancelled" /\ eser # 0) =>
    /\ outbox[<<"processing", SessionKey>>] = NoNotif
    /\ hbfiles = {}
    /\ ~(Exists(pending[SessionKey]) /\ pending[SessionKey].ser = eser)

\* C33: the response text that execute returns with success is the agent's
\* response to the order written for that same inbound message, never the
\* response file left by an earlier order with the same order id.
C33_ResponseAnswersSameMessage ==
  (epc = "returned" /\ eres = "success") => etext = eser

\* C34: the poller's mark-sent write-back clobbers no change made since
\* its read: when it rewrites a file, the file still exists and still
\* holds the notification that was read and sent.
C34_MarkSentClobbersNothing ==
  [][(opc = "send" /\ opc' = "next") =>
       (FileExists(ofile) /\ Content(ofile) = odata)]_vars

\* C36: one text message leads to at most one agent execution: the daemon
\* has answered no more orders than text messages have been received.
C36_OneExecutionPerMessage == Cardinality(respWritten) <= nextMsg - 1

\* C37: under fair scheduling of the daemon every order eventually leaves
\* the pending directory for good; none is claimed and released forever.
C37_EveryOrderLeavesPending ==
  \A n \in Sers : <>[](\A o \in Ids : pending[o].ser # n)

\* C38: when process_order fails with an exception while the order is
\* claimed, the except branch renames the claimed file back to the order
\* file with its content unchanged, leaves no claimed file and no archive
\* entry of the order, and increments failure_count exactly once.
C38_FailedOrderIsReleased ==
  [][(hpc = "except" /\ hpc' # "except" /\ Exists(claimed[hfile])) =>
       /\ pending'[hfile] = claimed[hfile]
       /\ ~Exists(claimed'[hfile])
       /\ \A o \in Ids : archive'[o].ser # claimed[hfile].ser
       /\ failure_count' = failure_count + 1]_vars

C40_UnauthorizedSocketIsOnlyRefused ==
  /\ [](\A k \in Socks :
          "error" \in wgot[k] =>
            /\ connections # k
            /\ wgot[k] = {"error"}
            /\ wclosed[k]
            /\ wpc[k] = "done")
  /\ [][\A k \in Socks :
          ("error" \notin wgot[k] /\ "error" \in wgot'[k]) =>
            /\ connections' = connections
            /\ inbound' = inbound /\ nextMsg' = nextMsg
            /\ wclosed' = [wclosed EXCEPT ![k] = TRUE]
            /\ wgot' = [wgot EXCEPT ![k] = {"error"}]]_vars

\* A socket has been refused while another socket is the open, indexed
\* connection of the user.
C40_Witness ==
  \E k \in Socks :
    /\ "error" \in wgot[k]
    /\ connections \notin {NoSock, k}
    /\ ~wclosed[connections]
====
